---- MODULE Spec2Model ----
(***************************************************************************)
(* Model of the markdown enrichment pipeline (package main of rich):       *)
(* loadConfig, isPathSafe, validateContent, RateLimiter, enrichContent,    *)
(* addToExcludedFiles, safeWriteFile, processFile, processDirectory.       *)
(*                                                                         *)
(* Strings are sequences of one-character strings, so that the library     *)
(* calls of the program (strings.Contains, strings.Split, filepath.Clean,  *)
(* filepath.Rel, ...) are computed character by character.                 *)
(***************************************************************************)
EXTENDS Integers, Sequences, FiniteSets, TLC

(***************************************************************************)
(* strings package                                                         *)
(***************************************************************************)

\* s[from..] (1-based), the empty string when from is past the end
Drop(s, n) == SubSeq(s, n + 1, Len(s))

Take(s, n) == SubSeq(s, 1, n)

\* strings.HasSuffix
HasSuffix(s, p) == Len(p) <= Len(s) /\ Drop(s, Len(s) - Len(p)) = p

\* strings.Contains
Contains(s, sub) == \E i \in 0..(Len(s) - Len(sub)) : SubSeq(s, i + 1, i + Len(sub)) = sub

\* strings.Index: the first position (0-based) of sub in s, -1 when absent
Index(s, sub) ==
    IF Contains(s, sub)
    THEN CHOOSE i \in 0..(Len(s) - Len(sub)) :
            /\ SubSeq(s, i + 1, i + Len(sub)) = sub
            /\ \A j \in 0..(i - 1) : SubSeq(s, j + 1, j + Len(sub)) # sub
    ELSE -1

\* unicode.ToLower on the letters the model uses
LowerChar(c) ==
    CASE c = "M" -> "m"
      [] c = "D" -> "d"
      [] c = "N" -> "n"
      [] c = "A" -> "a"
      [] OTHER -> c

\* strings.ToLower
ToLower(s) == [i \in 1..Len(s) |-> LowerChar(s[i])]

\* unicode.IsSpace on the characters the model uses
IsSpace(c) == c \in {" ", "\n", "\t", "\r"}

RECURSIVE TrimLeft(_)
TrimLeft(s) == IF s # <<>> /\ IsSpace(Head(s)) THEN TrimLeft(Tail(s)) ELSE s

RECURSIVE TrimRight(_)
TrimRight(s) ==
    IF s # <<>> /\ IsSpace(s[Len(s)]) THEN TrimRight(Take(s, Len(s) - 1)) ELSE s

\* strings.TrimSpace
TrimSpace(s) == TrimRight(TrimLeft(s))

\* strings.Split(s, sep) for a one-character separator: always at least one piece
RECURSIVE Split(_, _)
Split(s, sep) ==
    LET i == Index(s, <<sep>>)
    IN IF i < 0 THEN <<s>> ELSE <<Take(s, i)>> \o Split(Drop(s, i + 1), sep)

\* strings.Join(parts, sep)
RECURSIVE JoinWith(_, _)
JoinWith(parts, sep) ==
    IF parts = <<>> THEN <<>>
    ELSE IF Len(parts) = 1 THEN parts[1]
    ELSE parts[1] \o sep \o JoinWith(Tail(parts), sep)

\* strings.ReplaceAll(s, old, new) for a non-empty old: leftmost, non-overlapping
RECURSIVE ReplaceAll(_, _, _)
ReplaceAll(s, old, new) ==
    LET i == Index(s, old)
    IN IF i < 0 THEN s
       ELSE Take(s, i) \o new \o ReplaceAll(Drop(s, i + Len(old)), old, new)

(***************************************************************************)
(* path/filepath package (Unix: Separator is "/")                          *)
(***************************************************************************)

IsAbs(p) == p # <<>> /\ p[1] = "/"

\* the lexical processing of Clean on the elements of a path: empty and "."
\* elements vanish, ".." removes the element before it (or is kept at the
\* start of a relative path, dropped at the root)
RECURSIVE CleanElems(_, _, _)
CleanElems(elems, out, rooted) ==
    IF elems = <<>> THEN out
    ELSE LET e == Head(elems)
         IN IF e = <<>> \/ e = <<".">>
            THEN CleanElems(Tail(elems), out, rooted)
            ELSE IF e = <<".", ".">>
            THEN IF out # <<>> /\ out[Len(out)] # <<".", ".">>
                 THEN CleanElems(Tail(elems), Take(out, Len(out) - 1), rooted)
                 ELSE IF rooted
                      THEN CleanElems(Tail(elems), out, rooted)
                      ELSE CleanElems(Tail(elems), Append(out, e), rooted)
            ELSE CleanElems(Tail(elems), Append(out, e), rooted)

\* filepath.Clean
Clean(p) ==
    LET body == JoinWith(CleanElems(Split(p, "/"), <<>>, IsAbs(p)), <<"/">>)
    IN IF IsAbs(p) THEN <<"/">> \o body
       ELSE IF body = <<>> THEN <<".">> ELSE body

\* filepath.Join of two elements: empty elements are ignored, the result is cleaned
Join(a, b) ==
    IF a = <<>> /\ b = <<>> THEN <<>>
    ELSE IF a = <<>> THEN Clean(b)
    ELSE IF b = <<>> THEN Clean(a)
    ELSE Clean(a \o <<"/">> \o b)

\* filepath.Base
Base(p) ==
    IF p = <<>> THEN <<".">>
    ELSE LET nonEmpty == SelectSeq(Split(p, "/"), LAMBDA e : e # <<>>)
         IN IF nonEmpty = <<>> THEN <<"/">> ELSE nonEmpty[Len(nonEmpty)]

\* the position (1-based) of the last "/" of p, 0 when there is none
LastSep(p) ==
    IF \E i \in 1..Len(p) : p[i] = "/"
    THEN CHOOSE i \in 1..Len(p) : p[i] = "/" /\ \A j \in (i + 1)..Len(p) : p[j] # "/"
    ELSE 0

\* filepath.Dir
Dir(p) == Clean(Take(p, LastSep(p)))

\* the elements of a cleaned path, for Rel ("." has none)
RelElems(c) ==
    IF c = <<".">> THEN <<>>
    ELSE SelectSeq(Split(c, "/"), LAMBDA e : e # <<>>)

RECURSIVE CommonLen(_, _)
CommonLen(a, b) ==
    IF a # <<>> /\ b # <<>> /\ Head(a) = Head(b)
    THEN 1 + CommonLen(Tail(a), Tail(b))
    ELSE 0

\* filepath.Rel(basepath, targpath): [err, path]
Rel(basepath, targpath) ==
    LET base == Clean(basepath)
        targ == Clean(targpath)
        bs == RelElems(base)
        ts == RelElems(targ)
        k == CommonLen(bs, ts)
        restB == Drop(bs, k)
        restT == Drop(ts, k)
    IN IF targ = base THEN [err |-> FALSE, path |-> <<".">>]
       ELSE IF IsAbs(base) # IsAbs(targ) THEN [err |-> TRUE, path |-> <<>>]
       ELSE IF restB # <<>> /\ Head(restB) = <<".", ".">>
            THEN [err |-> TRUE, path |-> <<>>]
       ELSE [err |-> FALSE,
             path |-> JoinWith([i \in 1..Len(restB) |-> <<".", ".">>] \o restT, <<"/">>)]

\* the working directory of the process, which filepath.Abs joins a relative path to
Cwd == <<"/", "w">>

\* filepath.Abs
Abs(p) == IF IsAbs(p) THEN Clean(p) ELSE Join(Cwd, p)

(***************************************************************************)
(* Program constants and pure functions                                    *)
(***************************************************************************)

\* const MaxFileSize = 10 * 1024 * 1024
MaxFileSize == 10485760

\* const RequestsPerMinute = 10
RequestsPerMinute == 10

\* the backtick character
BT == "bt"

\* a string literal of the program, spelled out
Str_dotdot == <<".", ".">>
Str_md == <<".", "m", "d">>
Str_openai == <<"o", "p", "e", "n", "a", "i">>
Str_openrouter == <<"o", "p", "e", "n", "r", "o", "u", "t", "e", "r">>
Str_anthropic == <<"a", "n", "t", "h", "r", "o", "p", "i", "c">>
Str_chat == <<"c", "h", "a", "t", "/", "c", "o", "m", "p", "l", "e", "t", "i", "o", "n", "s">>

\* isPathSafe: no "../" and no "..\" anywhere in the path
isPathSafe(path) ==
    /\ ~Contains(path, <<".", ".", "/">>)
    /\ ~Contains(path, <<".", ".", "\\">>)

\* a check that fails from MaxFileSize on
validateContentMut(content) == ~(content.len >= MaxFileSize)

\* A file content: len is len(content); text are its bytes, spelled out for the
\* documents whose bytes the program goes on to use.
\* validateContent: nil (TRUE) unless len(content) > MaxFileSize
validateContent(content) == ~(content.len > MaxFileSize)

\* loadConfig, section EXCLUSIONS: the value split at commas, each piece
\* trimmed, the empty pieces dropped
ParseExcluded(excludedStr) ==
    IF excludedStr = <<>> THEN <<>>
    ELSE SelectSeq([i \in 1..Len(Split(excludedStr, ",")) |->
                        TrimSpace(Split(excludedStr, ",")[i])],
                   LAMBDA f : f # <<>>)

\* processDirectory: excludedMap, the cleaned entries of config.ExcludedFiles
ExcludedMap(excludedFiles) == {Clean(excludedFiles[i]) : i \in 1..Len(excludedFiles)}

\* addToExcludedFiles, the check "already in the list": some piece of the
\* stored value, trimmed and cleaned, equals the cleaned path
AlreadyExcluded(currentExcluded, relPath) ==
    \E i \in 1..Len(Split(currentExcluded, ",")) :
        Clean(TrimSpace(Split(currentExcluded, ",")[i])) = Clean(relPath)

\* a value that keeps the new path alone
AddedValueMut(currentExcluded, relPath) ==
    IF AlreadyExcluded(currentExcluded, relPath) THEN currentExcluded
    ELSE Clean(relPath)

\* addToExcludedFiles, the value it stores: unchanged when the path is already
\* listed, else the cleaned path appended after ", "
AddedValue(currentExcluded, relPath) ==
    IF AlreadyExcluded(currentExcluded, relPath) THEN currentExcluded
    ELSE IF currentExcluded = <<>> THEN Clean(relPath)
    ELSE currentExcluded \o <<",", " ">> \o Clean(relPath)

\* processFile: the key it records for inputPath, filepath.Rel against
\* config.InputDir, the base name when Rel fails or the result contains ".."
RecordKey(cfgInputDir, inputPath) ==
    LET r == Rel(cfgInputDir, inputPath)
    IN IF r.err \/ Contains(r.path, Str_dotdot) THEN Base(inputPath) ELSE r.path

\* processFile: escapedContent, every ``` replaced by \`\`\`
Escape(text) == ReplaceAll(text, <<BT, BT, BT>>, <<"\\", BT, "\\", BT, "\\", BT>>)

\* a merged content with one newline before the fence
FinalContentMut(enrichedContent, text) ==
    enrichedContent \o <<"\n", BT, BT, BT, "o", "l", "d", "\n">>
        \o Escape(text) \o <<"\n", BT, BT, BT>>

\* processFile: finalContent = enriched, "\n\n```old\n", escaped, "\n```"
FinalContent(enrichedContent, text) ==
    enrichedContent \o <<"\n", "\n", BT, BT, BT, "o", "l", "d", "\n">>
        \o Escape(text) \o <<"\n", BT, BT, BT>>

(***************************************************************************)
(* enrichContent: the provider's answer and what is extracted from it      *)
(***************************************************************************)

\* A JSON value, as json.Unmarshal into interface{} yields it: t is the Go
\* type (string, []interface{}, map[string]interface{}, float64, nil).
JStr(s) == [t |-> "string", v |-> s]
JArr(a) == [t |-> "array", v |-> a]
JObj(o) == [t |-> "object", v |-> o]
JNum == [t |-> "number", v |-> <<>>]
JNull == [t |-> "nil", v |-> <<>>]

\* m[name] of a map[string]interface{}: nil when the key is absent
JField(m, name) == IF name \in DOMAIN m.v THEN m.v[name] ELSE JNull

\* which response shape enrichContent reads (lines 413-460)
ResponseShape(apiURL) ==
    IF \/ Contains(ToLower(apiURL), Str_openai)
       \/ Contains(ToLower(apiURL), Str_openrouter)
       \/ Contains(ToLower(apiURL), Str_chat)
    THEN "openai"
    ELSE IF Contains(ToLower(apiURL), Str_anthropic) THEN "anthropic"
    ELSE "generic"

\* which request shape enrichContent builds (lines 305-336)
RequestShape(apiURL) ==
    IF \/ Contains(ToLower(apiURL), Str_openai)
       \/ Contains(ToLower(apiURL), Str_openrouter)
    THEN "openai"
    ELSE IF Contains(ToLower(apiURL), Str_anthropic) THEN "anthropic"
    ELSE "generic"

\* an extraction error returns "" with the error (lines 418-457); the errors
\* before the extraction return the content that was passed in (lines 339,
\* 351, 383, 394, 400, 408)
Failed(e) == [err |-> e, text |-> <<>>]
ReturnsContent(e, content) == [err |-> e, text |-> content]

\* the extraction of the generated text from the parsed body (lines 411-462)
ExtractText(apiURL, data) ==
    IF ResponseShape(apiURL) = "openai"
    THEN LET choices == JField(data, "choices")
         IN IF choices.t # "array" \/ choices.v = <<>> THEN Failed("malformed choices")
            ELSE IF choices.v[1].t # "object" THEN Failed("malformed choices element")
            ELSE LET message == JField(choices.v[1], "message")
                 IN IF message.t # "object" THEN Failed("malformed message")
                    ELSE IF JField(message, "content").t # "string"
                    THEN Failed("malformed content")
                    ELSE [err |-> "", text |-> TrimSpace(JField(message, "content").v)]
    ELSE IF ResponseShape(apiURL) = "anthropic"
    THEN LET contentArray == JField(data, "content")
         IN IF contentArray.t # "array" \/ contentArray.v = <<>>
            THEN Failed("malformed anthropic content")
            ELSE IF contentArray.v[1].t # "object"
            THEN Failed("malformed anthropic content element")
            ELSE IF JField(contentArray.v[1], "text").t # "string"
            THEN Failed("malformed anthropic text")
            ELSE [err |-> "", text |-> TrimSpace(JField(contentArray.v[1], "text").v)]
    ELSE IF JField(data, "text").t # "string" THEN Failed("malformed")
         ELSE [err |-> "", text |-> TrimSpace(JField(data, "text").v)]

\* an enrichContent that parses the body before it looks at the status
enrichResultMut(apiURL, content, resp) ==
    IF resp.transport THEN ReturnsContent("http", content)
    ELSE IF resp.readErr THEN ReturnsContent("read", content)
    ELSE IF ~resp.body.json THEN ReturnsContent("json", content)
    ELSE IF resp.status # 200 THEN ReturnsContent("status", content)
    ELSE ExtractText(apiURL, resp.body.val)

\* A provider answer: [transport |-> TRUE] when client.Do fails, else the
\* status code, whether io.ReadAll of the body returns an error, and the
\* body it returns, which is [json |-> FALSE] when json.Unmarshal into a map
\* fails and [json |-> TRUE, val |-> the object] otherwise.
\* enrichContent after the request was sent (lines 381-462): [err, text]
enrichResult(apiURL, content, resp) ==
    IF resp.transport THEN ReturnsContent("http", content)
    ELSE IF resp.status # 200 THEN ReturnsContent("status", content)
    ELSE IF resp.readErr THEN ReturnsContent("read", content)
    ELSE IF ~resp.body.json THEN ReturnsContent("json", content)
    ELSE ExtractText(apiURL, resp.body.val)

\* json.Marshal of the request (lines 305-340) fails for a temperature that
\* JSON cannot carry; MustFloat64 (line 201) reads NaN and Inf as such
MarshalFails(temperature) == temperature \in {"NaN", "Inf"}

\* the URL the request is made for (lines 343-346)
RequestURL(apiURL) ==
    IF Contains(ToLower(apiURL), Str_anthropic)
    THEN <<"h", "/">> \o Str_anthropic \o <<"/", "v", "1", "/", "m">>
    ELSE apiURL

\* http.NewRequest (lines 349-352) fails when the URL does not parse: of the
\* URLs considered here, those that hold a control character
NewRequestFails(apiURL) ==
    \E i \in 1..Len(RequestURL(apiURL)) : RequestURL(apiURL)[i] \in {"\n", "\t"}

\* the error with which enrichContent returns before a request is sent, ""
\* when it sends one
RequestError(cfg) ==
    IF MarshalFails(cfg.Temperature) THEN "marshal"
    ELSE IF NewRequestFails(cfg.ModelAPIURL) THEN "newrequest"
    ELSE ""

\* enrichContent from the building of the request on (lines 298-463)
enrichContent(cfg, content, resp) ==
    IF RequestError(cfg) # "" THEN ReturnsContent(RequestError(cfg), content)
    ELSE enrichResult(cfg.ModelAPIURL, content, resp)

(***************************************************************************)
(* The input tree, the configuration store and the file system             *)
(***************************************************************************)

\* how many documents the input tree holds at most
MaxDocs == 2

\* how many operations of the environment (file system, provider) fail at
\* most in one behaviour
MaxFaults == 2

\* the regular files an input tree is drawn from, as paths relative to the
\* input root
F_a == <<"a", ".", "m", "d">>
F_da == <<"d", "/", "a", ".", "m", "d">>
F_ea == <<"e", "/", "a", ".", "m", "d">>
F_dots == <<"b", ".", ".", "m", "d">>
F_big == <<"g", ".", "m", "d">>
F_up == <<"N", ".", "M", "D">>
F_txt == <<"n", ".", "t", "x", "t">>

\* the files of the input trees of whole runs: N.MD is the oversized one
Universe == {F_a, F_da, F_ea, F_dots, F_up, F_txt}

\* the bytes os.ReadFile returns for a file of the tree
Content(f) ==
    IF f \in {F_big, F_up} THEN [len |-> MaxFileSize + 1, text |-> <<>>]
    ELSE IF f = F_da THEN [len |-> 4, text |-> <<BT, BT, BT, "x">>]
    ELSE IF f = F_ea THEN [len |-> 2, text |-> <<"#", "e">>]
    ELSE [len |-> 1, text |-> <<"#">>]

\* input_dir and output_dir as the store may give them
InputDirs == {<<".", "/", "t">>, <<"/", "w", "/", "t">>}
OutputDirs == {<<".", "/", "o">>}

\* the excluded_files value the store may hold when the program starts: no
\* entry, an entry that Clean changes, and a list of two entries, one below
\* a directory and one whose name holds two dots
InitExcluded == {<<>>, <<".", "/", "a", ".", "m", "d">>, F_da \o <<",">> \o F_dots}

\* config.ModelAPIURL, as the tests set it: a local server's chat/completions
ApiURL == <<"h", "/", "v", "1", "/">> \o Str_chat

\* the answers the provider may give to one request
EnrichedText == <<" ", "E", "\n">>
GoodBody ==
    JObj([choices |-> JArr(<<JObj([message |-> JObj([content |-> JStr(EnrichedText)])])>>)])
Responses ==
    { [transport |-> TRUE, status |-> 0, readErr |-> FALSE, body |-> [json |-> FALSE, val |-> JNull]],
      [transport |-> FALSE, status |-> 500, readErr |-> FALSE, body |-> [json |-> FALSE, val |-> JNull]],
      [transport |-> FALSE, status |-> 200, readErr |-> FALSE, body |-> [json |-> FALSE, val |-> JNull]],
      [transport |-> FALSE, status |-> 200, readErr |-> TRUE, body |-> [json |-> FALSE, val |-> JNull]],
      [transport |-> FALSE, status |-> 200, readErr |-> FALSE,
       body |-> [json |-> TRUE, val |-> JObj([choices |-> JArr(<<>>)])]],
      [transport |-> FALSE, status |-> 200, readErr |-> FALSE, body |-> [json |-> TRUE, val |-> GoodBody]] }

\* the byte order of the characters of file names, as sort.Strings compares them
Code(c) ==
    CASE c = "." -> 46 [] c = "/" -> 47 [] c = "D" -> 68 [] c = "M" -> 77
      [] c = "N" -> 78 [] c = "a" -> 97 [] c = "b" -> 98 [] c = "d" -> 100
      [] c = "e" -> 101 [] c = "g" -> 103 [] c = "m" -> 109 [] c = "n" -> 110
      [] c = "t" -> 116 [] c = "x" -> 120 [] OTHER -> 0

RECURSIVE StrLess(_, _)
StrLess(s, u) ==
    IF u = <<>> THEN FALSE
    ELSE IF s = <<>> THEN TRUE
    ELSE IF Head(s) = Head(u) THEN StrLess(Tail(s), Tail(u))
    ELSE Code(Head(s)) < Code(Head(u))

\* a before b in filepath.Walk: directory entries are visited in the order of
\* their names, a directory's files right after its own entry
RECURSIVE ElemsLess(_, _)
ElemsLess(a, b) ==
    IF b = <<>> THEN FALSE
    ELSE IF a = <<>> THEN TRUE
    ELSE IF Head(a) = Head(b) THEN ElemsLess(Tail(a), Tail(b))
    ELSE StrLess(Head(a), Head(b))

WalkLess(a, b) == ElemsLess(Split(a, "/"), Split(b, "/"))

\* the regular files of the tree in the order filepath.Walk visits them
RECURSIVE WalkOrder(_)
WalkOrder(files) ==
    IF files = {} THEN <<>>
    ELSE LET first == CHOOSE f \in files : \A g \in files \ {f} : WalkLess(f, g)
         IN <<first>> \o WalkOrder(files \ {first})

(***************************************************************************)
(* State                                                                   *)
(***************************************************************************)

VARIABLES
    store,      \* the configuration store on disk: input_dir, output_dir, excluded_files
    storeTmp,   \* configPath + ".tmp": <<>> when absent, else <<the keys it holds>>
    tree,       \* the regular files under the input root (relative paths)
    out,        \* the files under the output root: path |-> content
    dirs,       \* the directories that exist under the output root
    temp,       \* the temp_*.tmp file of safeWriteFile: <<>> or <<[dir, data, perm, open]>>
    config,     \* the *Config loadConfig returned
    pc,         \* where main / processDirectory / processFile / safeWriteFile stands
    run,        \* 1 for the first run of the program, 2 for the run after it
    todo,       \* the files filepath.Walk has still to visit, in its order
    pf,         \* processFile's arguments and locals
    sw,         \* safeWriteFile's arguments
    tokens,     \* len(rateLimiter.tokens)
    hist,       \* per file, what this run did for it
    start,      \* the store and the output files as they were when this run began
    added,      \* the keys this run's addToExcludedFiles calls appended to the store
    prev,       \* what the previous run wrote and whether its ledger updates succeeded
    walkErr,    \* processDirectory returned an error
    faults,     \* how many operations of the environment failed so far
    cap,        \* cap(r.tokens) of the RateLimiter under concurrent callers
    recvq,      \* the goroutines blocked in <-r.tokens, in the order they blocked
    cstate,     \* per caller: "idle", "blocked" in Wait, "returned" from Wait
    returned,   \* per caller, how many of its Wait() calls have returned
    ticks,      \* how many times the ticker has fired
    refills,    \* how many ticks put a token into the channel
    call        \* one function called on its own: its name, arguments and result

rlVars == <<cap, recvq, cstate, returned, ticks, refills>>

vars == <<store, storeTmp, tree, out, dirs, temp, config, pc, run, todo, pf, sw,
          tokens, hist, start, added, prev, walkErr, faults, rlVars, call>>

NoHist == [st |-> "-", why |-> "-", pf |-> 0, reads |-> 0, calls |-> 0, toks |-> 0,
           ledger |-> 0, lres |-> "-", warns |-> 0]

\* no function is called on its own
NoCall == [fn |-> "-"]
NoPf == [doc |-> <<>>, inputPath |-> <<>>, outputPath |-> <<>>,
         content |-> [len |-> 0, text |-> <<>>], enriched |-> <<>>, err |-> ""]
NoSw == [path |-> <<>>, data |-> <<>>, perm |-> 0, res |-> "-", rm |-> "-"]
NoConfig == [InputDir |-> <<>>, OutputDir |-> <<>>, ExcludedFiles |-> <<>>, ModelAPIURL |-> <<>>,
             Temperature |-> "0.7"]

\* os.FileMode 0644, the mode processFile asks for, and 0600, the mode
\* os.CreateTemp gives the temporary file
PermOutput == 420
PermTemp == 384

\* the output path processDirectory derives for a relative path (line 685)
OutputPathOf(outputDir, relPath) == Join(Abs(outputDir), relPath)

\* no RateLimiter shared by concurrent callers has been made
NoLimiter ==
    /\ cap = 0
    /\ recvq = <<>>
    /\ cstate = <<>>
    /\ returned = <<>>
    /\ ticks = 0
    /\ refills = 0

Init ==
    /\ NoLimiter
    /\ call = NoCall
    /\ \E i \in InputDirs, o \in OutputDirs, e \in InitExcluded :
          store = [input_dir |-> i, output_dir |-> o, excluded_files |-> e]
    /\ storeTmp = <<>>
    /\ tree \in {s \in SUBSET Universe : 1 <= Cardinality(s) /\ Cardinality(s) <= MaxDocs}
    /\ \E old \in {s \in SUBSET (tree \cap {F_a, F_da}) : Cardinality(s) <= 1} :
          /\ out = [p \in {OutputPathOf(store.output_dir, f) : f \in old} |->
                      [data |-> <<"o", "l", "d">>, perm |-> PermOutput]]
          /\ dirs = {Dir(OutputPathOf(store.output_dir, f)) : f \in old}
    /\ temp = <<>>
    /\ config = NoConfig
    /\ pc = "main"
    /\ run = 1
    /\ todo = <<>>
    /\ pf = NoPf
    /\ sw = NoSw
    /\ tokens = 0
    /\ hist = [f \in tree |-> NoHist]
    /\ start = [store |-> store, out |-> out, dirs |-> dirs]
    /\ added = {}
    /\ prev = [written |-> {}, ledgerOK |-> TRUE]
    /\ walkErr = FALSE
    /\ faults = 0

(***************************************************************************)
(* main and loadConfig                                                     *)
(***************************************************************************)

\* loadConfig (lines 133-226): the EXCLUSIONS list is parsed, the output
\* directory is made absolute, checked and created
LoadConfig ==
    /\ pc = "main"
    /\ config' = [InputDir |-> store.input_dir, OutputDir |-> store.output_dir,
                  ExcludedFiles |-> ParseExcluded(store.excluded_files),
                  ModelAPIURL |-> ApiURL, Temperature |-> "0.7"]
    /\ start' = [store |-> store, out |-> out, dirs |-> dirs]
    /\ IF ~isPathSafe(Abs(store.output_dir))
       THEN pc' = "fatal" /\ UNCHANGED <<dirs, faults>>
       ELSE \/ pc' = "pd" /\ dirs' = dirs \cup {Abs(store.output_dir)} /\ UNCHANGED faults
            \/ /\ faults < MaxFaults
               /\ faults' = faults + 1
               /\ pc' = "fatal"
               /\ UNCHANGED dirs
    /\ UNCHANGED <<store, storeTmp, tree, out, temp, run, todo, pf, sw, tokens, hist,
                   added, prev, walkErr>>
    /\ UNCHANGED <<rlVars, call>>

(***************************************************************************)
(* RateLimiter, as processDirectory uses it                                *)
(***************************************************************************)

\* a filling loop that stops one token short
InitialTokensMut(n) == n - 1

\* NewRateLimiter (lines 265-268): the tokens put into the channel at
\* construction
InitialTokens(n) == n

\* a send that does not give up on the full buffer
SendSucceedsMut(t, n) == t <= n

\* the select of the refill goroutine (lines 276-281): the send succeeds
\* unless the buffer holds n tokens already
SendSucceeds(t, n) == t < n

\* where the pipeline stands while the refill goroutine runs: from
\* NewRateLimiter (line 644), after the checks of the roots, to the end of
\* the process
TickerRunning ==
    pc \in {"walk", "pf", "wait", "request", "answer", "enriched", "mkdir", "sw_create", "sw_write",
            "sw_close", "sw_chmod", "sw_rename", "sw_cleanup", "sw_return", "ledger",
            "retry", "done"}

\* the refill goroutine (lines 271-283): one token per tick unless the
\* channel is full, wherever the pipeline stands
Tick ==
    /\ TickerRunning
    /\ tokens' = IF SendSucceeds(tokens, RequestsPerMinute) THEN tokens + 1 ELSE tokens
    /\ UNCHANGED <<store, storeTmp, tree, out, dirs, temp, config, pc, run, todo, pf, sw,
                   hist, start, added, prev, walkErr, faults>>
    /\ UNCHANGED <<rlVars, call>>

(***************************************************************************)
(* processDirectory                                                        *)
(***************************************************************************)

\* processDirectory up to the walk (lines 620-648): filepath.Abs of a
\* relative root asks for the working directory and returns an error when
\* that fails (lines 622-630); the roots are checked; the limiter is made
ProcessDirectoryStart ==
    /\ pc = "pd"
    /\ \/ /\ UNCHANGED faults
          /\ IF ~isPathSafe(Abs(config.InputDir)) \/ ~isPathSafe(Abs(config.OutputDir))
             THEN /\ pc' = "fatal"
                  /\ walkErr' = TRUE
                  /\ UNCHANGED <<tokens, todo>>
             ELSE /\ pc' = "walk"
                  /\ tokens' = InitialTokens(RequestsPerMinute)
                  /\ todo' = WalkOrder(tree)
                  /\ UNCHANGED walkErr
       \/ /\ ~IsAbs(config.InputDir) \/ ~IsAbs(config.OutputDir)
          /\ faults < MaxFaults
          /\ faults' = faults + 1
          /\ pc' = "fatal"
          /\ walkErr' = TRUE
          /\ UNCHANGED <<tokens, todo>>
    /\ UNCHANGED <<store, storeTmp, tree, out, dirs, temp, config, run, pf, sw, hist,
                   start, added, prev>>
    /\ UNCHANGED <<rlVars, call>>

\* processDirectory's exclusion check (lines 678-682)
IsExcluded(relPath) == Clean(relPath) \in ExcludedMap(config.ExcludedFiles)

\* the extension check (line 662) on the file's name
IsMarkdown(name) == HasSuffix(ToLower(name), Str_md)

\* a walk that comes to each document a second time
WalkVisitMut ==
    /\ pc = "walk"
    /\ todo # <<>>
    /\ \/ /\ UNCHANGED faults
          /\ LET f == Head(todo)
                 path == Join(Abs(config.InputDir), f)
                 rel == Rel(Abs(config.InputDir), path)
             IN /\ todo' = IF IsMarkdown(Base(path)) /\ hist[f].pf = 0 THEN todo ELSE Tail(todo)
                /\ IF ~IsMarkdown(Base(path))
                   THEN /\ hist' = [hist EXCEPT ![f].st = "skipped", ![f].why = "extension"]
                        /\ UNCHANGED <<pc, pf, walkErr>>
                   ELSE IF rel.err \/ Contains(rel.path, Str_dotdot)
                   THEN /\ hist' = [hist EXCEPT ![f].st = "aborted", ![f].why = "traversal"]
                        /\ walkErr' = TRUE
                        /\ pc' = "done"
                        /\ UNCHANGED pf
                   ELSE IF IsExcluded(rel.path)
                   THEN /\ hist' = [hist EXCEPT ![f].st = "skipped", ![f].why = "excluded"]
                        /\ UNCHANGED <<pc, pf, walkErr>>
                   ELSE /\ hist' = [hist EXCEPT ![f].pf = @ + 1]
                        /\ pf' = [NoPf EXCEPT !.doc = f, !.inputPath = path,
                                    !.outputPath = OutputPathOf(config.OutputDir, Clean(rel.path))]
                        /\ pc' = "pf"
                        /\ UNCHANGED walkErr
       \/ /\ faults < MaxFaults
          /\ faults' = faults + 1
          /\ todo' = Tail(todo)
          /\ walkErr' = TRUE
          /\ pc' = "done"
          /\ UNCHANGED <<hist, pf>>
    /\ UNCHANGED <<store, storeTmp, tree, out, dirs, temp, config, run, sw, tokens,
                   start, added, prev>>
    /\ UNCHANGED <<rlVars, call>>

\* the walk callback for a regular file (lines 651-691), up to the call of
\* processFile; when Walk could not stat the file it passes the error, which
\* the callback returns (lines 652-654), and the walk ends
WalkVisit ==
    /\ pc = "walk"
    /\ todo # <<>>
    /\ \/ /\ UNCHANGED faults
          /\ LET f == Head(todo)
                 path == Join(Abs(config.InputDir), f)
                 rel == Rel(Abs(config.InputDir), path)
             IN /\ todo' = Tail(todo)
                /\ IF ~IsMarkdown(Base(path))
                   THEN /\ hist' = [hist EXCEPT ![f].st = "skipped", ![f].why = "extension"]
                        /\ UNCHANGED <<pc, pf, walkErr>>
                   ELSE IF rel.err \/ Contains(rel.path, Str_dotdot)
                   THEN /\ hist' = [hist EXCEPT ![f].st = "aborted", ![f].why = "traversal"]
                        /\ walkErr' = TRUE
                        /\ pc' = "done"
                        /\ UNCHANGED pf
                   ELSE IF IsExcluded(rel.path)
                   THEN /\ hist' = [hist EXCEPT ![f].st = "skipped", ![f].why = "excluded"]
                        /\ UNCHANGED <<pc, pf, walkErr>>
                   ELSE /\ hist' = [hist EXCEPT ![f].pf = @ + 1]
                        /\ pf' = [NoPf EXCEPT !.doc = f, !.inputPath = path,
                                    !.outputPath = OutputPathOf(config.OutputDir, Clean(rel.path))]
                        /\ pc' = "pf"
                        /\ UNCHANGED walkErr
       \/ /\ faults < MaxFaults
          /\ faults' = faults + 1
          /\ todo' = Tail(todo)
          /\ walkErr' = TRUE
          /\ pc' = "done"
          /\ UNCHANGED <<hist, pf>>
    /\ UNCHANGED <<store, storeTmp, tree, out, dirs, temp, config, run, sw, tokens,
                   start, added, prev>>
    /\ UNCHANGED <<rlVars, call>>

\* the walk is over: processDirectory returns nil (lines 697-702), or the
\* error Walk passed for a directory it could not read (lines 652-654)
WalkEnd ==
    /\ pc = "walk"
    /\ todo = <<>>
    /\ pc' = "done"
    /\ \/ UNCHANGED <<walkErr, faults>>
       \/ faults < MaxFaults /\ faults' = faults + 1 /\ walkErr' = TRUE
    /\ UNCHANGED <<store, storeTmp, tree, out, dirs, temp, config, run, todo, pf, sw,
                   tokens, hist, start, added, prev>>
    /\ UNCHANGED <<rlVars, call>>

(***************************************************************************)
(* processFile                                                             *)
(***************************************************************************)

\* processFile returns an error: the callback logs it and the walk goes on
\* (lines 688-691)
PfFail(why) ==
    /\ hist' = [hist EXCEPT ![pf.doc].st = "failed", ![pf.doc].why = why]
    /\ pf' = NoPf
    /\ pc' = "walk"

\* a path check that looks at the input path alone
PathsSafeMut(inputPath, outputPath) == isPathSafe(inputPath)

\* processFile's path check (line 562)
PathsSafe(inputPath, outputPath) == isPathSafe(inputPath) /\ isPathSafe(outputPath)

\* a validation that accepts every content
SizeAcceptedMut(content) == TRUE

\* processFile's validation of what it read (line 573)
SizeAccepted(content) == validateContent(content)

\* processFile up to the enrichment (lines 558-575): the path check, the
\* read, the validation
PFRead ==
    /\ pc = "pf"
    /\ IF ~PathsSafe(pf.inputPath, pf.outputPath)
       THEN PfFail("unsafe") /\ UNCHANGED faults
       ELSE \/ /\ faults < MaxFaults
               /\ faults' = faults + 1
               /\ hist' = [hist EXCEPT ![pf.doc].st = "failed", ![pf.doc].why = "read",
                                         ![pf.doc].reads = @ + 1]
               /\ pf' = NoPf
               /\ pc' = "walk"
            \/ /\ UNCHANGED faults
               /\ IF ~SizeAccepted(Content(pf.doc))
                  THEN /\ hist' = [hist EXCEPT ![pf.doc].st = "failed",
                                                ![pf.doc].why = "toolarge",
                                                ![pf.doc].reads = @ + 1]
                       /\ pf' = NoPf
                       /\ pc' = "walk"
                  ELSE /\ pf' = [pf EXCEPT !.content = Content(pf.doc)]
                       /\ pc' = "wait"
                       /\ hist' = [hist EXCEPT ![pf.doc].reads = @ + 1]
    /\ UNCHANGED <<store, storeTmp, tree, out, dirs, temp, config, run, todo, sw, tokens,
                   start, added, prev, walkErr>>
    /\ UNCHANGED <<rlVars, call>>

\* a Wait() that returns without taking a token
EnrichWaitMut ==
    /\ pc = "wait"
    /\ pc' = "request"
    /\ UNCHANGED <<store, storeTmp, tree, out, dirs, temp, config, run, todo, pf, sw, tokens,
                   hist, start, added, prev, walkErr, faults>>
    /\ UNCHANGED <<rlVars, call>>

\* enrichContent, rateLimiter.Wait() (lines 289-291, 296): blocks while the
\* channel is empty, takes one token
EnrichWait ==
    /\ pc = "wait"
    /\ tokens > 0
    /\ tokens' = tokens - 1
    /\ hist' = [hist EXCEPT ![pf.doc].toks = @ + 1]
    /\ pc' = "request"
    /\ UNCHANGED <<store, storeTmp, tree, out, dirs, temp, config, run, todo, pf, sw,
                   start, added, prev, walkErr, faults>>
    /\ UNCHANGED <<rlVars, call>>

\* enrichContent, the request (lines 298-381): it returns with the content
\* when the request cannot be built, else it sends the request and waits in
\* client.Do for the answer
EnrichRequest ==
    /\ pc = "request"
    /\ IF RequestError(config) # ""
       THEN /\ pf' = [pf EXCEPT !.enriched = pf.content.text, !.err = RequestError(config)]
            /\ pc' = "enriched"
            /\ UNCHANGED hist
       ELSE /\ hist' = [hist EXCEPT ![pf.doc].calls = @ + 1]
            /\ pc' = "answer"
            /\ UNCHANGED pf
    /\ UNCHANGED <<store, storeTmp, tree, out, dirs, temp, config, run, todo, sw, tokens,
                   start, added, prev, walkErr, faults>>
    /\ UNCHANGED <<rlVars, call>>

\* enrichContent, the answer (lines 381-463): client.Do returns with the
\* provider's answer, or with an error when none came within the timeout
EnrichAnswer ==
    /\ pc = "answer"
    /\ \E resp \in Responses :
         LET r == enrichResult(config.ModelAPIURL, pf.content.text, resp)
         IN /\ IF r.err # ""
               THEN faults < MaxFaults /\ faults' = faults + 1
               ELSE UNCHANGED faults
            /\ pf' = [pf EXCEPT !.enriched = r.text, !.err = r.err]
    /\ pc' = "enriched"
    /\ UNCHANGED <<store, storeTmp, tree, out, dirs, temp, config, run, todo, sw, tokens,
                   hist, start, added, prev, walkErr>>
    /\ UNCHANGED <<rlVars, call>>

\* a processFile that logs the error of enrichContent and goes on
PFAfterEnrichMut ==
    /\ pc = "enriched"
    /\ pc' = "mkdir"
    /\ UNCHANGED <<store, storeTmp, tree, out, dirs, temp, config, run, todo, pf, sw, tokens,
                   hist, start, added, prev, walkErr, faults>>
    /\ UNCHANGED <<rlVars, call>>

\* processFile, the result of enrichContent (lines 578-582): an error ends
\* the file's processing
PFAfterEnrich ==
    /\ pc = "enriched"
    /\ IF pf.err # ""
       THEN PfFail("enrich")
       ELSE pc' = "mkdir" /\ UNCHANGED <<hist, pf>>
    /\ UNCHANGED <<store, storeTmp, tree, out, dirs, temp, config, run, todo, sw, tokens,
                   start, added, prev, walkErr, faults>>
    /\ UNCHANGED <<rlVars, call>>

\* processFile, os.MkdirAll of the output file's directory and the call of
\* safeWriteFile with the merged content (lines 584-597)
PFMkdir ==
    /\ pc = "mkdir"
    /\ \/ /\ dirs' = dirs \cup {Dir(pf.outputPath)}
          /\ sw' = [path |-> pf.outputPath,
                    data |-> FinalContent(pf.enriched, pf.content.text),
                    perm |-> PermOutput, res |-> "-", rm |-> "-"]
          /\ pc' = "sw_create"
          /\ UNCHANGED <<hist, pf, faults>>
       \/ /\ faults < MaxFaults
          /\ faults' = faults + 1
          /\ PfFail("mkdir")
          /\ UNCHANGED <<dirs, sw>>
    /\ UNCHANGED <<store, storeTmp, tree, out, temp, config, run, todo, tokens,
                   start, added, prev, walkErr>>
    /\ UNCHANGED <<rlVars, call>>

(***************************************************************************)
(* safeWriteFile                                                           *)
(***************************************************************************)

\* os.CreateTemp(dir, "temp_*.tmp") (lines 513-518): the file is created in
\* the directory of the destination, which safeWriteFile does not create;
\* without that directory os.CreateTemp fails and the error is returned
SWCreate ==
    /\ pc = "sw_create"
    /\ \/ /\ Dir(sw.path) \in dirs
          /\ temp' = <<[dir |-> Dir(sw.path), data |-> <<>>, perm |-> PermTemp, open |-> TRUE]>>
          /\ pc' = "sw_write"
          /\ UNCHANGED <<sw, faults>>
       \/ /\ Dir(sw.path) \notin dirs
          /\ sw' = [sw EXCEPT !.res = "err"]
          /\ pc' = "sw_return"
          /\ UNCHANGED <<temp, faults>>
       \/ /\ Dir(sw.path) \in dirs
          /\ faults < MaxFaults
          /\ faults' = faults + 1
          /\ sw' = [sw EXCEPT !.res = "err"]
          /\ pc' = "sw_return"
          /\ UNCHANGED temp
    /\ UNCHANGED <<store, storeTmp, tree, out, dirs, config, run, todo, pf, tokens, hist,
                   start, added, prev, walkErr>>
    /\ UNCHANGED <<rlVars, call>>

\* a write that goes to the destination itself, as os.WriteFile does
SWWriteMut ==
    /\ pc = "sw_write"
    /\ \/ /\ out' = [p \in DOMAIN out \cup {sw.path} |->
                        IF p = sw.path THEN [data |-> sw.data, perm |-> sw.perm] ELSE out[p]]
          /\ pc' = "sw_close"
          /\ UNCHANGED faults
       \/ /\ faults < MaxFaults
          /\ faults' = faults + 1
          /\ \E n \in {0, 1, Len(sw.data) - 1} \cap (0..(Len(sw.data) - 1)) :
                out' = [p \in DOMAIN out \cup {sw.path} |->
                          IF p = sw.path THEN [data |-> Take(sw.data, n), perm |-> sw.perm]
                          ELSE out[p]]
          /\ pc' = "sw_cleanup"
    /\ UNCHANGED <<store, storeTmp, tree, dirs, temp, config, run, todo, pf, sw, tokens,
                   hist, start, added, prev, walkErr>>
    /\ UNCHANGED <<rlVars, call>>

\* tempFile.Write(data) (line 521): all of data, or an error after a part of it
SWWrite ==
    /\ pc = "sw_write"
    /\ \/ /\ temp' = <<[temp[1] EXCEPT !.data = sw.data]>>
          /\ pc' = "sw_close"
          /\ UNCHANGED faults
       \/ /\ faults < MaxFaults
          /\ faults' = faults + 1
          /\ \E n \in {0, 1, Len(sw.data) - 1} \cap (0..(Len(sw.data) - 1)) :
                temp' = <<[temp[1] EXCEPT !.data = Take(sw.data, n), !.open = FALSE]>>
          /\ pc' = "sw_cleanup"
    /\ UNCHANGED <<store, storeTmp, tree, out, dirs, config, run, todo, pf, sw, tokens,
                   hist, start, added, prev, walkErr>>
    /\ UNCHANGED <<rlVars, call>>

\* tempFile.Close() (line 531)
SWClose ==
    /\ pc = "sw_close"
    /\ temp' = <<[temp[1] EXCEPT !.open = FALSE]>>
    /\ \/ pc' = "sw_chmod" /\ UNCHANGED faults
       \/ faults < MaxFaults /\ faults' = faults + 1 /\ pc' = "sw_cleanup"
    /\ UNCHANGED <<store, storeTmp, tree, out, dirs, config, run, todo, pf, sw, tokens,
                   hist, start, added, prev, walkErr>>
    /\ UNCHANGED <<rlVars, call>>

\* a step that leaves the temporary file with the mode os.CreateTemp gave it
SWChmodMut ==
    /\ pc = "sw_chmod"
    /\ pc' = "sw_rename"
    /\ UNCHANGED <<store, storeTmp, tree, out, dirs, temp, config, run, todo, pf, sw, tokens,
                   hist, start, added, prev, walkErr, faults>>
    /\ UNCHANGED <<rlVars, call>>

\* os.Chmod(tempPath, perm) (line 539)
SWChmod ==
    /\ pc = "sw_chmod"
    /\ \/ /\ temp' = <<[temp[1] EXCEPT !.perm = sw.perm]>>
          /\ pc' = "sw_rename"
          /\ UNCHANGED faults
       \/ /\ faults < MaxFaults
          /\ faults' = faults + 1
          /\ pc' = "sw_cleanup"
          /\ UNCHANGED temp
    /\ UNCHANGED <<store, storeTmp, tree, out, dirs, config, run, todo, pf, sw, tokens,
                   hist, start, added, prev, walkErr>>
    /\ UNCHANGED <<rlVars, call>>

\* the file at path p of a file system, <<>> when there is none
FileAt(files, p) == IF p \in DOMAIN files THEN <<files[p]>> ELSE <<>>

\* the destination after os.Rename(tempPath, path): the temporary file's
\* content and mode under the destination's name
Renamed(files, path, tmp) ==
    [p \in DOMAIN files \cup {path} |->
        IF p = path THEN [data |-> tmp.data, perm |-> tmp.perm] ELSE files[p]]

\* os.Rename(tempPath, path) (line 547)
SWRename ==
    /\ pc = "sw_rename"
    /\ \/ /\ out' = Renamed(out, sw.path, temp[1])
          /\ temp' = <<>>
          /\ sw' = [sw EXCEPT !.res = "ok"]
          /\ pc' = "sw_return"
          /\ UNCHANGED faults
       \/ /\ faults < MaxFaults
          /\ faults' = faults + 1
          /\ pc' = "sw_cleanup"
          /\ UNCHANGED <<out, temp, sw>>
    /\ UNCHANGED <<store, storeTmp, tree, dirs, config, run, todo, pf, tokens,
                   hist, start, added, prev, walkErr>>
    /\ UNCHANGED <<rlVars, call>>

\* error paths that return the error without removing the temporary file
SWCleanupMut ==
    /\ pc = "sw_cleanup"
    /\ temp' = <<[temp[1] EXCEPT !.open = FALSE]>>
    /\ sw' = [sw EXCEPT !.res = "err"]
    /\ pc' = "sw_return"
    /\ UNCHANGED <<store, storeTmp, tree, out, dirs, config, run, todo, pf, tokens,
                   hist, start, added, prev, walkErr, faults>>
    /\ UNCHANGED <<rlVars, call>>

\* the error paths of safeWriteFile (lines 522-551): os.Remove(tempPath),
\* whose own error is only logged (lines 526, 533, 541, 549) and leaves the
\* temporary file where it is; the error of the failed step is returned
SWCleanup ==
    /\ pc = "sw_cleanup"
    /\ \/ /\ temp' = <<>>
          /\ sw' = [sw EXCEPT !.res = "err", !.rm = "ok"]
          /\ UNCHANGED faults
       \/ /\ faults < MaxFaults
          /\ faults' = faults + 1
          /\ temp' = <<[temp[1] EXCEPT !.open = FALSE]>>
          /\ sw' = [sw EXCEPT !.res = "err", !.rm = "failed"]
    /\ pc' = "sw_return"
    /\ UNCHANGED <<store, storeTmp, tree, out, dirs, config, run, todo, pf, tokens,
                   hist, start, added, prev, walkErr>>
    /\ UNCHANGED <<rlVars, call>>

(***************************************************************************)
(* processFile after the write; addToExcludedFiles                         *)
(***************************************************************************)

\* processFile, the result of safeWriteFile (lines 597-599)
PFAfterWrite ==
    /\ pc = "sw_return"
    /\ IF sw.res = "err"
       THEN PfFail("write")
       ELSE pc' = "ledger" /\ UNCHANGED <<hist, pf>>
    /\ sw' = NoSw
    /\ UNCHANGED <<store, storeTmp, tree, out, dirs, temp, config, run, todo, tokens,
                   start, added, prev, walkErr, faults>>
    /\ UNCHANGED <<rlVars, call>>

\* the key processFile hands to addToExcludedFiles (lines 602-605)
LedgerKey == RecordKey(config.InputDir, pf.inputPath)

\* One call addToExcludedFiles(configPath, relPath) (lines 466-508); ok says
\* whether it returned nil. It fails when ini.Load fails, when SaveTo of the
\* temporary file fails, or when the rename fails; the store itself changes
\* with the rename alone.
AddToExcludedFiles(relPath, ok) ==
    LET new == AddedValue(store.excluded_files, relPath)
        present == AlreadyExcluded(store.excluded_files, relPath)
    IN \/ /\ ok
          /\ store' = [store EXCEPT !.excluded_files = new]
          /\ storeTmp' = IF present THEN storeTmp ELSE <<>>
          /\ added' = IF present THEN added ELSE added \cup {Clean(relPath)}
          /\ UNCHANGED faults
       \/ /\ ~ok
          /\ faults < MaxFaults
          /\ faults' = faults + 1
          /\ \/ UNCHANGED storeTmp                              \* ini.Load failed
             \/ ~present /\ storeTmp' = <<<<>>>>                  \* SaveTo failed
             \/ ~present /\ storeTmp' = <<[store EXCEPT !.excluded_files = new]>>
                                                                  \* os.Rename failed
          /\ UNCHANGED <<store, added>>

\* processFile returns nil (lines 615-616): the callback counts the file
PfDone ==
    /\ pf' = NoPf
    /\ pc' = "walk"

\* processFile, the first addToExcludedFiles (line 606)
Ledger ==
    /\ pc = "ledger"
    /\ \/ /\ AddToExcludedFiles(LedgerKey, TRUE)
          /\ hist' = [hist EXCEPT ![pf.doc].st = "written", ![pf.doc].ledger = @ + 1,
                                    ![pf.doc].lres = "ok"]
          /\ PfDone
       \/ /\ AddToExcludedFiles(LedgerKey, FALSE)
          /\ hist' = [hist EXCEPT ![pf.doc].ledger = @ + 1, ![pf.doc].lres = "failed",
                                    ![pf.doc].warns = @ + 1]
          /\ pc' = "retry"
          /\ UNCHANGED pf
    /\ UNCHANGED <<tree, out, dirs, temp, config, run, todo, sw, tokens, start, prev, walkErr>>
    /\ UNCHANGED <<rlVars, call>>

\* a retry whose failure fails the document
LedgerRetryMut ==
    /\ pc = "retry"
    /\ \/ /\ AddToExcludedFiles(LedgerKey, TRUE)
          /\ hist' = [hist EXCEPT ![pf.doc].st = "written", ![pf.doc].ledger = @ + 1,
                                    ![pf.doc].lres = "ok"]
       \/ /\ AddToExcludedFiles(LedgerKey, FALSE)
          /\ hist' = [hist EXCEPT ![pf.doc].st = "failed", ![pf.doc].why = "ledger",
                                    ![pf.doc].ledger = @ + 1, ![pf.doc].lres = "failed",
                                    ![pf.doc].warns = @ + 1]
    /\ PfDone
    /\ UNCHANGED <<tree, out, dirs, temp, config, run, todo, sw, tokens, start, prev, walkErr>>
    /\ UNCHANGED <<rlVars, call>>

\* processFile, the retry (lines 610-612); the file is written either way,
\* a failure is logged
LedgerRetry ==
    /\ pc = "retry"
    /\ \/ /\ AddToExcludedFiles(LedgerKey, TRUE)
          /\ hist' = [hist EXCEPT ![pf.doc].st = "written", ![pf.doc].ledger = @ + 1,
                                    ![pf.doc].lres = "ok"]
       \/ /\ AddToExcludedFiles(LedgerKey, FALSE)
          /\ hist' = [hist EXCEPT ![pf.doc].st = "written", ![pf.doc].ledger = @ + 1,
                                    ![pf.doc].lres = "failed", ![pf.doc].warns = @ + 1]
    /\ PfDone
    /\ UNCHANGED <<tree, out, dirs, temp, config, run, todo, sw, tokens, start, prev, walkErr>>
    /\ UNCHANGED <<rlVars, call>>

(***************************************************************************)
(* The program run again over the same tree                                *)
(***************************************************************************)

WrittenNow == {f \in tree : hist[f].st = "written"}

\* main returned; the program is started a second time with the same store
Rerun ==
    /\ pc = "done"
    /\ run = 1
    /\ run' = 2
    /\ pc' = "main"
    /\ prev' = [written |-> WrittenNow,
                ledgerOK |-> ~walkErr /\ \A f \in WrittenNow : hist[f].lres = "ok"]
    /\ hist' = [f \in tree |-> NoHist]
    /\ added' = {}
    /\ walkErr' = FALSE
    /\ tokens' = 0
    /\ config' = NoConfig
    /\ UNCHANGED <<store, storeTmp, tree, out, dirs, temp, todo, pf, sw, start, faults>>
    /\ UNCHANGED <<rlVars, call>>

Next ==
    \/ LoadConfig
    \/ ProcessDirectoryStart
    \/ Tick
    \/ WalkVisit
    \/ WalkEnd
    \/ PFRead
    \/ EnrichWait
    \/ EnrichRequest
    \/ EnrichAnswer
    \/ PFAfterEnrich
    \/ PFMkdir
    \/ SWCreate
    \/ SWWrite
    \/ SWClose
    \/ SWChmod
    \/ SWRename
    \/ SWCleanup
    \/ PFAfterWrite
    \/ Ledger
    \/ LedgerRetry
    \/ Rerun

Spec == Init /\ [][Next]_vars

(***************************************************************************)
(* The RateLimiter shared by concurrent callers                            *)
(***************************************************************************)

\* the capacities a RateLimiter is made with, the callers that share it, and
\* how far the counters of ticks and of Wait() calls go
MaxCap == 3
NumCallers == 3
MaxTicks == 3
MaxCalls == 2

Callers == 1..NumCallers

RECURSIVE SumTo(_, _)
SumTo(f, n) == IF n = 0 THEN 0 ELSE f[n] + SumTo(f, n - 1)

\* how many Wait() calls have returned since construction
Returned == SumTo(returned, NumCallers)

\* the pipeline's variables, which a RateLimiter on its own does not touch
pipeVarsButCall == <<store, storeTmp, tree, out, dirs, temp, config, pc, run, todo, pf, sw,
                     hist, start, added, prev, walkErr, faults>>
pipeVars == <<pipeVarsButCall, call>>

NoPipeline ==
    /\ store = [input_dir |-> <<>>, output_dir |-> <<>>, excluded_files |-> <<>>]
    /\ storeTmp = <<>>
    /\ tree = {}
    /\ out = <<>>
    /\ dirs = {}
    /\ temp = <<>>
    /\ config = NoConfig
    /\ pc = "limiter"
    /\ run = 1
    /\ todo = <<>>
    /\ pf = NoPf
    /\ sw = NoSw
    /\ hist = <<>>
    /\ start = [store |-> store, out |-> out, dirs |-> dirs]
    /\ added = {}
    /\ prev = [written |-> {}, ledgerOK |-> TRUE]
    /\ walkErr = FALSE
    /\ faults = 0

\* NewRateLimiter(n) (lines 258-286): a channel of capacity n, filled
RLInit ==
    /\ NoPipeline
    /\ call = NoCall
    /\ cap \in 1..MaxCap
    /\ tokens = InitialTokens(cap)
    /\ recvq = <<>>
    /\ cstate = [c \in Callers |-> "idle"]
    /\ returned = [c \in Callers |-> 0]
    /\ ticks = 0
    /\ refills = 0

\* the receivers a send on the channel may wake: each of those blocked in
\* the receive of line 290, which of them is not the program's choice
Dequeue(q) == {q[i] : i \in 1..Len(q)}

\* the waiting receivers after one of them was woken
Remaining(q, c) == SelectSeq(q, LAMBDA x : x # c)

\* a receive that leaves the token in the buffer
TakeTokenMut(t) == t

\* the buffer after a receive took a token from it (line 290)
TakeToken(t) == t - 1

\* A tick of the refill goroutine (lines 275-282). The send hands the token
\* to a receiver blocked in Wait if there is one, puts it into the buffer if
\* there is room, and is given up (default) otherwise. counted says whether
\* the counters of the history are kept.
TickStep(counted) ==
    /\ IF recvq # <<>>
       THEN /\ \E c \in Dequeue(recvq) :
                  /\ cstate' = [cstate EXCEPT ![c] = "returned"]
                  /\ recvq' = Remaining(recvq, c)
                  /\ returned' = IF counted
                                  THEN [returned EXCEPT ![c] = @ + 1]
                                  ELSE returned
            /\ refills' = IF counted THEN refills + 1 ELSE refills
            /\ UNCHANGED tokens
       ELSE /\ tokens' = IF SendSucceeds(tokens, cap) THEN tokens + 1 ELSE tokens
            /\ refills' = IF counted /\ SendSucceeds(tokens, cap) THEN refills + 1 ELSE refills
            /\ UNCHANGED <<cstate, recvq, returned>>
    /\ ticks' = IF counted THEN ticks + 1 ELSE ticks
    /\ UNCHANGED <<cap, pipeVars>>

\* Caller c calls Wait() (lines 289-291): it returns with a token of the
\* buffer, or blocks on the empty channel.
WaitStep(c, counted) ==
    /\ cstate[c] = "idle"
    /\ IF tokens > 0
       THEN /\ tokens' = TakeToken(tokens)
            /\ cstate' = [cstate EXCEPT ![c] = "returned"]
            /\ returned' = IF counted THEN [returned EXCEPT ![c] = @ + 1] ELSE returned
            /\ UNCHANGED recvq
       ELSE /\ recvq' = Append(recvq, c)
            /\ cstate' = [cstate EXCEPT ![c] = "blocked"]
            /\ UNCHANGED <<tokens, returned>>
    /\ UNCHANGED <<cap, ticks, refills, pipeVars>>

\* Caller c goes on after Wait() returned, and may call it again.
Proceed(c) ==
    /\ cstate[c] = "returned"
    /\ cstate' = [cstate EXCEPT ![c] = "idle"]
    /\ UNCHANGED <<cap, tokens, recvq, returned, ticks, refills, pipeVars>>

RLTick == ticks < MaxTicks /\ TickStep(TRUE)

RLWait == \E c \in Callers : returned[c] < MaxCalls /\ WaitStep(c, TRUE)

RLProceed == \E c \in Callers : Proceed(c)

RLNext ==
    \/ RLTick
    \/ RLWait
    \/ RLProceed

\* a RateLimiter, its refill goroutine and concurrent callers of Wait()
SpecRL == RLInit /\ [][RLNext]_vars

\* The same without the counters of the history, so that ticks and calls go
\* on for ever; the ticker keeps firing.
FairTick == TickStep(FALSE)

FairWait == \E c \in Callers : WaitStep(c, FALSE)

FairNext ==
    \/ FairTick
    \/ FairWait
    \/ RLProceed

SpecRLFair == RLInit /\ [][FairNext]_vars /\ WF_vars(FairTick)

(***************************************************************************)
(* Properties of the pipeline                                              *)
(***************************************************************************)

\* the output path of the document with relative path f
OutOf(f) == OutputPathOf(store.output_dir, Clean(f))

\* the merged artifact of document f: the trimmed enriched text, the fenced
\* escaped original
ArtifactOf(f) == [data |-> FinalContent(TrimSpace(EnrichedText), Content(f).text),
                  perm |-> PermOutput]

\* the exclusion set the run started with: the cleaned entries of the store
StartExcluded == {Clean(e) : e \in {ParseExcluded(start.store.excluded_files)[i] :
                                      i \in 1..Len(ParseExcluded(start.store.excluded_files))}}

\* C1: Resumability. When the first run completed and every ledger update of
\* the documents it wrote succeeded, the second run over the unchanged tree
\* passes none of those documents to processFile: no token, no provider call,
\* no write for them.
C1_Resumable ==
    (run = 2 /\ prev.ledgerOK) =>
        \A f \in prev.written :
            /\ hist[f].pf = 0
            /\ hist[f].toks = 0
            /\ hist[f].calls = 0
            /\ hist[f].st \in {"-", "skipped"}

\* C2: Record after write. A relative path this run has added to the
\* persisted exclusion set has the complete merged artifact at its output
\* path, and addToExcludedFiles is never called for a document whose output
\* was not written.
C2_RecordAfterWrite ==
    /\ \A k \in added :
          /\ k \in tree
          /\ FileAt(out, OutOf(k)) = <<ArtifactOf(k)>>
    /\ \A f \in tree : hist[f].ledger > 0 => FileAt(out, OutOf(f)) = <<ArtifactOf(f)>>

\* C3: A failed enrichment produces nothing. The step of processFile that
\* receives an error from enrichContent ends the document Failed and changes
\* no output file, no directory, no temporary file and nothing of the store;
\* and a document that failed in the enrichment has its output path as the
\* run found it and no ledger call.
C3_FailedEnrichmentProducesNothing ==
    /\ [](\A f \in tree : hist[f].why = "enrich" =>
            /\ hist[f].st = "failed"
            /\ hist[f].ledger = 0
            /\ FileAt(out, OutOf(f)) = FileAt(start.out, OutOf(f)))
    /\ [][(pc = "enriched" /\ pf.err # "" /\ pc' # pc) =>
            /\ hist'[pf.doc].st = "failed"
            /\ pc' = "walk"
            /\ out' = out
            /\ dirs' = dirs
            /\ temp' = temp
            /\ store' = store
            /\ storeTmp' = storeTmp
            /\ added' = added
            /\ tree' = tree]_vars

\* a sibling was written in the run in which a document failed in the enrichment
C3_Witness ==
    /\ pc = "done"
    /\ \E f \in tree : hist[f].why = "enrich" /\ hist[f].calls = 1
    /\ \E g \in tree : hist[g].st = "written"

\* processDirectory returned the error filepath.Walk passed to the callback
\* for an entry it could not stat or read, not an error of a document
WalkFailed == walkErr /\ \A f \in tree : hist[f].why # "traversal"

\* C4: Failure isolation. When processDirectory is over, and Walk itself
\* passed no error, it has returned no error, and every .md document that is
\* not excluded was passed to processFile, whatever happened to the other
\* documents.
C4_FailureIsolation ==
    (pc = "done" /\ ~WalkFailed) =>
        /\ ~walkErr
        /\ \A f \in tree :
              (IsMarkdown(Base(f)) /\ Clean(f) \notin StartExcluded /\ ~Contains(f, Str_dotdot))
                  => hist[f].pf = 1

\* C5: A document whose cleaned relative path is in the exclusion set when
\* the run starts is Skipped with no effect. When processDirectory is over,
\* and Walk itself passed no error, every such document was skipped as
\* excluded, was never passed to processFile, took no token, caused no
\* provider call and no ledger call, and has its output path as the run
\* found it; and the store is as the run found it unless a ledger call was
\* made for another document.
C5_ExcludedSkipped ==
    (pc = "done" /\ ~WalkFailed) =>
        \A f \in tree :
            (IsMarkdown(Base(f)) /\ Clean(f) \in StartExcluded) =>
                /\ hist[f].st = "skipped"
                /\ hist[f].why = "excluded"
                /\ hist[f].pf = 0
                /\ hist[f].toks = 0
                /\ hist[f].calls = 0
                /\ hist[f].ledger = 0
                /\ FileAt(out, OutOf(f)) = FileAt(start.out, OutOf(f))
                /\ (\A g \in tree : hist[g].ledger = 0) => store = start.store

(***************************************************************************)
(* Properties of the RateLimiter                                           *)
(***************************************************************************)

\* C7: A RateLimiter of capacity N starts full. No Wait() blocks before N
\* calls have returned, and more than N calls have returned only after a
\* tick put a token into the channel.
C7_StartsFull ==
    /\ (\E c \in Callers : cstate[c] = "blocked") => Returned >= cap
    /\ Returned > cap => refills >= 1
    /\ ticks = 0 => Returned <= cap

\* the (N+1)th call has returned, on the one token a tick has added
C7_Witness == Returned = cap + 1 /\ refills = 1 /\ tokens = 0

\* C8: Bucket bound. The channel holds between 0 and N tokens; a tick on a
\* full channel changes nothing but the count of ticks, and a tick on a
\* channel that is not full adds exactly one token (to the buffer, or to the
\* caller it wakes).
C8_BucketBound ==
    /\ [](tokens \in 0..cap)
    /\ [][ticks' = ticks + 1 =>
            IF tokens = cap
            THEN /\ tokens' = tokens
                 /\ refills' = refills
                 /\ UNCHANGED <<recvq, cstate, returned>>
            ELSE /\ tokens' + Returned' = tokens + Returned + 1
                 /\ refills' = refills + 1]_vars

\* a tick was dropped on the full channel and another added a token
C8_Witness == ticks > refills /\ refills >= 1 /\ tokens = cap

\* C9: Starvation freedom. While the ticker keeps firing, every caller
\* blocked in Wait() returns from it. The formula holds when a send wakes
\* the receiver that blocked first, and it is violated when a send may wake
\* any blocked receiver, as Dequeue has it: Wait() is a bare channel receive
\* (line 290), and the program does not say which receiver a send wakes.
C9_StarvationFree ==
    \A c \in Callers : (cstate[c] = "blocked") ~> (cstate[c] = "returned")

\* C10: Throughput bound. The Wait() calls that have returned are at most N
\* plus the ticks so far, and every return took a token of its own: the
\* returns and the tokens left add up to N plus the tokens the ticks added.
C10_ThroughputBound ==
    /\ Returned <= cap + ticks
    /\ Returned + tokens = cap + refills
    /\ refills <= ticks

\* every caller has returned and every token, the ticks' included, is used up
C10_Witness ==
    /\ Returned = cap + ticks
    /\ ticks >= 1
    /\ \A c \in Callers : returned[c] >= 1

(***************************************************************************)
(* safeWriteFile on its own, with an interruption at any step              *)
(***************************************************************************)

\* the destinations, the data and the destination's earlier content that one
\* call of safeWriteFile is checked with
WPaths == {<<"/", "w", "/", "o", "/", "a", ".", "m", "d">>,
           <<"/", "w", "/", "o", "/", "d", "/", "a", ".", "m", "d">>}
WData == {<<>>, <<"x">>, <<"x", "y", "z">>}
WOld == {<<>>, <<[data |-> <<"o", "l", "d">>, perm |-> PermOutput]>>,
         <<[data |-> <<"x">>, perm |-> PermTemp]>>}

\* safeWriteFile(path, data, 0644) is called; the directory of path exists
\* or does not, and only in an existing directory can path hold a file
WInit ==
    /\ NoLimiter
    /\ call = NoCall
    /\ tokens = 0
    /\ store = [input_dir |-> <<>>, output_dir |-> <<>>, excluded_files |-> <<>>]
    /\ storeTmp = <<>>
    /\ tree = {}
    /\ \E p \in WPaths, d \in WData, old \in WOld :
          /\ sw = [path |-> p, data |-> d, perm |-> PermOutput, res |-> "-", rm |-> "-"]
          /\ out = [q \in {x \in {p} : old # <<>>} |-> old[1]]
          /\ dirs \in {{Dir(p)}} \cup {{} : x \in {1} \cap {y \in {1} : old = <<>>}}
    /\ temp = <<>>
    /\ config = NoConfig
    /\ pc = "sw_create"
    /\ run = 1
    /\ todo = <<>>
    /\ pf = NoPf
    /\ hist = <<>>
    /\ start = [store |-> store, out |-> out, dirs |-> dirs]
    /\ added = {}
    /\ prev = [written |-> {}, ledgerOK |-> TRUE]
    /\ walkErr = FALSE
    /\ faults = 0

\* the process is stopped in the middle of safeWriteFile or of
\* addToExcludedFiles
Interrupt ==
    /\ pc \in {"sw_create", "sw_write", "sw_close", "sw_chmod", "sw_rename", "sw_cleanup",
               "atl_load", "atl_save", "atl_rename"}
    /\ pc' = "interrupted"
    /\ UNCHANGED <<store, storeTmp, tree, out, dirs, temp, config, run, todo, pf, sw,
                   tokens, hist, start, added, prev, walkErr, faults, rlVars, call>>

WNext ==
    \/ SWCreate
    \/ SWWrite
    \/ SWClose
    \/ SWChmod
    \/ SWRename
    \/ SWCleanup
    \/ Interrupt

SpecWriter == WInit /\ [][WNext]_vars

\* C6: AtomicWriter atomicity. At every step of safeWriteFile, and after an
\* interruption at any step, the destination holds what it held before the
\* call (or is absent as before) or the complete new data; it holds the old
\* state as long as the temporary file exists or the call failed.
C6_AtomicDestination ==
    /\ FileAt(out, sw.path) \in {FileAt(start.out, sw.path),
                                  <<[data |-> sw.data, perm |-> sw.perm]>>}
    /\ (temp # <<>> \/ sw.res = "err") => FileAt(out, sw.path) = FileAt(start.out, sw.path)
    /\ sw.res = "ok" => FileAt(out, sw.path) = <<[data |-> sw.data, perm |-> sw.perm]>>

\* interrupted with a part of the data in the temporary file, the destination
\* holding its earlier content
C6_Witness ==
    /\ pc = "interrupted"
    /\ temp # <<>>
    /\ Len(temp[1].data) > 0
    /\ Len(temp[1].data) < Len(sw.data)
    /\ sw.path \in DOMAIN out

(***************************************************************************)
(* addToExcludedFiles on its own, called several times on one store        *)
(***************************************************************************)

\* how many calls of addToExcludedFiles one behaviour makes
MaxMarks == 3

\* the excluded_files values the store starts with
LedgerValues ==
    { <<>>,
      <<"a", ".", "m", "d">>,
      <<".", "/", "a", ".", "m", "d", " ", ",", "d", "/", "a", ".", "m", "d">> }

\* the relative paths addToExcludedFiles is called with; a file name may
\* hold a comma
F_comma == <<"a", ",", "b", ".", "m", "d">>
LedgerPaths == {F_a, <<".", "/", "a", ".", "m", "d">>, F_da, F_ea, F_comma}

\* the entries of an excluded_files value as loadConfig reads them, cleaned
\* as processDirectory and addToExcludedFiles compare them
EntriesOf(value) ==
    [i \in 1..Len(ParseExcluded(value)) |-> Clean(ParseExcluded(value)[i])]

LedgerInit ==
    /\ NoLimiter
    /\ tokens = 0
    /\ \E v \in LedgerValues :
          store = [input_dir |-> <<>>, output_dir |-> <<>>, excluded_files |-> v]
    /\ storeTmp = <<>>
    /\ tree = {}
    /\ out = <<>>
    /\ dirs = {}
    /\ temp = <<>>
    /\ config = NoConfig
    /\ pc = "mark"
    /\ run = 1
    /\ todo = <<>>
    /\ pf = NoPf
    /\ sw = NoSw
    /\ hist = <<>>
    /\ start = [store |-> store, out |-> out, dirs |-> dirs]
    /\ added = {}
    /\ prev = [written |-> {}, ledgerOK |-> TRUE]
    /\ walkErr = FALSE
    /\ faults = 0
    /\ call = [fn |-> "addToExcludedFiles", log |-> <<>>]

\* one call addToExcludedFiles(configPath, p); the log keeps the path, the
\* result and the stored value before and after
MarkProcessed ==
    /\ pc = "mark"
    /\ Len(call.log) < MaxMarks
    /\ \E p \in LedgerPaths, ok \in BOOLEAN :
          /\ AddToExcludedFiles(p, ok)
          /\ call' = [call EXCEPT !.log = Append(@, [path |-> p, ok |-> ok,
                                                      before |-> store.excluded_files,
                                                      after |-> store.excluded_files'])]
    /\ UNCHANGED <<tree, out, dirs, temp, config, pc, run, todo, pf, sw, tokens, hist,
                   start, prev, walkErr, rlVars>>

LedgerNext == MarkProcessed

SpecLedger == LedgerInit /\ [][LedgerNext]_vars

\* how many elements of a sequence equal x
RECURSIVE CountOf(_, _)
CountOf(s, x) ==
    IF s = <<>> THEN 0 ELSE (IF Head(s) = x THEN 1 ELSE 0) + CountOf(Tail(s), x)

\* C11: addToExcludedFiles is idempotent. Whenever it was called twice in a
\* row with the same path and returned nil both times, the second call left
\* the stored value as it was and the stored list holds exactly one entry
\* equal to the normalized path.
C11_Idempotent ==
    \A i \in 1..(Len(call.log) - 1) :
        (/\ call.log[i].path = call.log[i + 1].path
         /\ call.log[i].ok
         /\ call.log[i + 1].ok)
        => /\ call.log[i + 1].after = call.log[i + 1].before
           /\ CountOf(EntriesOf(call.log[i + 1].after), Clean(call.log[i].path)) = 1

\* C12: ledger keys are full relative paths. When the two documents with the
\* same base name, d/a.md and e/a.md, were both written in one run and their
\* ledger updates returned nil, the stored exclusion list holds an entry for
\* each, equal to its path relative to the input root; and a document is
\* skipped as excluded only when its own relative path was in the list.
C12_FullRelativeKeys ==
    /\ (/\ F_da \in tree
        /\ F_ea \in tree
        /\ \A f \in {F_da, F_ea} : hist[f].st = "written" /\ hist[f].lres = "ok")
       => /\ CountOf(EntriesOf(store.excluded_files), F_da) >= 1
          /\ CountOf(EntriesOf(store.excluded_files), F_ea) >= 1
    /\ \A f \in tree : hist[f].why = "excluded" => Clean(f) \in StartExcluded

\* s is the beginning of u
IsPrefixOf(s, u) == Len(s) <= Len(u) /\ SubSeq(u, 1, Len(s)) = s

\* C13: the exclusion set only grows. No step of the program, whether a
\* ledger update returns nil or fails, removes or alters an entry of the
\* stored exclusion list: the entries before the step are the first entries
\* after it, as written.
C13_LedgerOnlyGrows ==
    [][IsPrefixOf(ParseExcluded(store.excluded_files),
                  ParseExcluded(store.excluded_files'))]_vars

\* a run appended a key to a list that already held an entry, after a
\* ledger update that failed
C13_Witness ==
    /\ start.store.excluded_files # <<>>
    /\ store.excluded_files # start.store.excluded_files
    /\ added # {}
    /\ \E f \in tree : hist[f].ledger = 2

(***************************************************************************)
(* The pure functions, each called on its own                              *)
(***************************************************************************)

\* how long the paths, how far around the size limit the buffers, and how
\* long the original contents the functions are called with
MaxPathLen == 4
MaxSizeDelta == 3
MaxTextLen == 5

\* the strings over an alphabet up to a length
StringsOver(alphabet, n) == UNION {[1..k -> alphabet] : k \in 0..n}

\* the paths isPathSafe is called with
PathInputs == StringsOver({"a", ".", "/", "\\"}, MaxPathLen)

\* the buffers validateContent is called with: around the empty buffer and
\* around MaxFileSize
SizeInputs ==
    {[len |-> n, text |-> <<>>] :
        n \in (0..MaxSizeDelta) \cup ((MaxFileSize - MaxSizeDelta)..(MaxFileSize + MaxSizeDelta))}

\* the original contents and the provider's texts a document is merged from
TextInputs == StringsOver({BT, "x"}, MaxTextLen)
EnrichedInputs == {EnrichedText, <<"E">>, <<>>}

\* the provider's answer 200 that carries the text e
AnswerWith(e) ==
    [transport |-> FALSE, status |-> 200, readErr |-> FALSE,
     body |-> [json |-> TRUE,
               val |-> JObj([choices |-> JArr(<<JObj([message |-> JObj([content |-> JStr(e)])])>>)])]]

\* the field the message of an extraction error names (lines 418, 423, 428,
\* 433, 440, 445, 450), "" for the message that names none (line 457)
FieldNamed(e) ==
    CASE e = "malformed choices" -> "choices"
      [] e = "malformed choices element" -> "choices[0]"
      [] e = "malformed message" -> "message"
      [] e = "malformed content" -> "content"
      [] e = "malformed anthropic content" -> "content"
      [] e = "malformed anthropic content element" -> "content[0]"
      [] e = "malformed anthropic text" -> "text"
      [] OTHER -> ""

\* What one call of enrichContent does once it has its token (lines
\* 298-463): the shape of the request it builds, whether it sends it, the
\* shape it reads the answer with, and what it returns: the trimmed text, or
\* an error of a kind ("marshal", "newrequest", "http", "status", "read",
\* "json", "malformed") whose message carries the status code and the body
\* (line 394) or names a field, with the content or "" as the text.
enrichOutcome(cfg, content, resp) ==
    LET apiURL == cfg.ModelAPIURL
        r == enrichContent(cfg, content, resp)
    IN [request |-> RequestShape(apiURL),
        sent |-> RequestError(cfg) = "",
        response |-> ResponseShape(apiURL),
        kind |-> IF r.err \in {"", "marshal", "newrequest", "http", "status", "read", "json"}
                 THEN r.err ELSE "malformed",
        code |-> IF r.err = "status" THEN resp.status ELSE 0,
        body |-> IF r.err = "status" THEN resp.body ELSE [json |-> FALSE, val |-> JNull],
        field |-> FieldNamed(r.err),
        text |-> r.text]

\* the API URLs enrichContent is configured with: one per provider name, one
\* with no provider name, the tests' chat/completions URL, and one that
\* holds two provider names
ProviderURLs ==
    { <<"h", "/">> \o Str_openai,
      <<"h", "/">> \o Str_openrouter,
      <<"h", "/">> \o Str_anthropic,
      <<"h", "/", "a", "p", "i">>,
      ApiURL,
      <<"h", "/">> \o Str_anthropic \o <<"/">> \o Str_openai }

\* the JSON objects a provider answers with: every field of every
\* extraction path absent, empty, of another type, and as it should be
JsonBodies ==
    { JObj(<<>>),
      JObj([choices |-> JStr(<<"s">>)]),
      JObj([choices |-> JArr(<<>>)]),
      JObj([choices |-> JArr(<<JNum>>)]),
      JObj([choices |-> JArr(<<JObj(<<>>)>>)]),
      JObj([choices |-> JArr(<<JObj([message |-> JStr(<<"s">>)])>>)]),
      JObj([choices |-> JArr(<<JObj([message |-> JObj(<<>>)])>>)]),
      JObj([choices |-> JArr(<<JObj([message |-> JObj([content |-> JNum])])>>)]),
      GoodBody,
      JObj([content |-> JStr(<<"s">>)]),
      JObj([content |-> JArr(<<>>)]),
      JObj([content |-> JArr(<<JNum>>)]),
      JObj([content |-> JArr(<<JObj(<<>>)>>)]),
      JObj([content |-> JArr(<<JObj([text |-> JNum])>>)]),
      JObj([content |-> JArr(<<JObj([text |-> JStr(EnrichedText)])>>)]),
      JObj([text |-> JNum]),
      JObj([text |-> JStr(EnrichedText)]) }

\* the status codes of an answer
StatusCodes == {200, 201, 301, 404, 500}

\* the answers to one request: no answer, or a status and a body that is a
\* JSON object or is not
ProviderAnswers ==
    { [transport |-> TRUE, status |-> 0, readErr |-> FALSE, body |-> [json |-> FALSE, val |-> JNull]] }
    \cup { [transport |-> FALSE, status |-> s, readErr |-> TRUE, body |-> [json |-> FALSE, val |-> JNull]] :
             s \in {200, 500} }
    \cup { [transport |-> FALSE, status |-> s, readErr |-> FALSE, body |-> [json |-> FALSE, val |-> JNull]] :
             s \in StatusCodes }
    \cup { [transport |-> FALSE, status |-> s, readErr |-> FALSE, body |-> [json |-> TRUE, val |-> v]] :
             s \in StatusCodes, v \in JsonBodies }

\* os.Getenv: the empty string for a variable that is not set
Getenv(env, name) == IF name \in DOMAIN env THEN env[name] ELSE <<>>

\* a credential resolution in which a literal api_key wins over the variable
\* that api_key_env names
ResolveAPIKeyMut(literal, envKey, env, apiURL) ==
    IF literal # <<>>
    THEN literal
    ELSE IF envKey # "" /\ Getenv(env, envKey) # <<>>
         THEN Getenv(env, envKey)
         ELSE <<>>

\* loadConfig, config.APIKey (lines 180-199): the literal api_key, replaced
\* by the variable api_key_env names when that is set and not empty;
\* otherwise, for an empty literal, the variable of the provider the
\* lower-cased URL names, and nothing for a URL that names none
ResolveAPIKey(literal, envKey, env, apiURL) ==
    IF envKey # "" /\ Getenv(env, envKey) # <<>>
    THEN Getenv(env, envKey)
    ELSE IF literal = <<>>
         THEN CASE Contains(ToLower(apiURL), Str_openai) -> Getenv(env, "OPENAI_API_KEY")
                [] Contains(ToLower(apiURL), Str_openrouter) /\ ~Contains(ToLower(apiURL), Str_openai)
                     -> Getenv(env, "OPENROUTER_API_KEY")
                [] Contains(ToLower(apiURL), Str_anthropic) /\ ~Contains(ToLower(apiURL), Str_openai)
                   /\ ~Contains(ToLower(apiURL), Str_openrouter)
                     -> Getenv(env, "ANTHROPIC_API_KEY")
                [] OTHER -> <<>>
         ELSE literal

\* what the credential resolution is called with: a literal api_key or none;
\* api_key_env absent, naming TEST_API_KEY, a provider's variable or a
\* variable that is not set; every environment that sets some of four
\* variables; and the URLs of the providers, one of them in upper case
KeyInputs ==
    LET names == {"TEST_API_KEY", "OPENAI_API_KEY", "OPENROUTER_API_KEY", "ANTHROPIC_API_KEY"}
        envs == {env \in [names -> {<<>>} \cup {<<"env", n>> : n \in names}] :
                    \A n \in names : env[n] \in {<<>>, <<"env", n>>}}
    IN  {[literal |-> l, envKey |-> k, env |-> v, url |-> u] :
            l \in {<<>>, <<"test_key">>},
            k \in {"", "TEST_API_KEY", "ANTHROPIC_API_KEY", "NOT_SET"},
            v \in envs,
            u \in ProviderURLs \cup {<<"h", "/", "o", "p", "e", "N", "A", "i">>}}

FnCalls ==
    {[fn |-> "loadConfig", arg |-> a, done |-> FALSE, res |-> <<>>] : a \in KeyInputs} \cup
    {[fn |-> "enrichContent", arg |-> [url |-> u, temp |-> m, content |-> <<"T", "c">>, resp |-> r],
      done |-> FALSE, res |-> <<>>] :
        u \in ProviderURLs \cup {<<"h", "\n">>}, m \in {"0.7", "NaN"}, r \in ProviderAnswers} \cup
    {[fn |-> "isPathSafe", arg |-> p, done |-> FALSE, res |-> <<>>] : p \in PathInputs}
    \cup {[fn |-> "validateContent", arg |-> c, done |-> FALSE, res |-> <<>>] : c \in SizeInputs}
    \cup {[fn |-> "finalContent", arg |-> [o |-> o, e |-> e], done |-> FALSE, res |-> <<>>] :
            o \in TextInputs, e \in EnrichedInputs}

FnInit ==
    /\ NoLimiter
    /\ tokens = 0
    /\ store = [input_dir |-> <<>>, output_dir |-> <<>>, excluded_files |-> <<>>]
    /\ storeTmp = <<>>
    /\ tree = {}
    /\ out = <<>>
    /\ dirs = {}
    /\ temp = <<>>
    /\ config = NoConfig
    /\ pc = "call"
    /\ run = 1
    /\ todo = <<>>
    /\ pf = NoPf
    /\ sw = NoSw
    /\ hist = <<>>
    /\ start = [store |-> store, out |-> out, dirs |-> dirs]
    /\ added = {}
    /\ prev = [written |-> {}, ledgerOK |-> TRUE]
    /\ walkErr = FALSE
    /\ faults = 0
    /\ call \in FnCalls

\* the call returns
Return(res) ==
    /\ pc = "call"
    /\ ~call.done
    /\ call' = [call EXCEPT !.done = TRUE, !.res = res]
    /\ UNCHANGED <<pipeVarsButCall, tokens, rlVars>>

\* isPathSafe(path) (lines 229-238)
CallIsPathSafe == call.fn = "isPathSafe" /\ Return(isPathSafe(call.arg))

\* validateContent(content) (lines 241-249): TRUE for nil
CallValidateContent == call.fn = "validateContent" /\ Return(validateContent(call.arg))

\* processFile's merged content (lines 578-594) for the original o and a
\* provider answer carrying e
CallFinalContent ==
    /\ call.fn = "finalContent"
    /\ Return(FinalContent(enrichResult(ApiURL, call.arg.o, AnswerWith(call.arg.e)).text, call.arg.o))

\* enrichContent(config, content, rateLimiter) from the building of the
\* request on (lines 298-463)
CallEnrichContent ==
    /\ call.fn = "enrichContent"
    /\ Return(enrichOutcome([NoConfig EXCEPT !.ModelAPIURL = call.arg.url,
                                              !.Temperature = call.arg.temp],
                             call.arg.content, call.arg.resp))

\* loadConfig's resolution of config.APIKey (lines 180-199)
CallLoadConfig ==
    /\ call.fn = "loadConfig"
    /\ Return(ResolveAPIKey(call.arg.literal, call.arg.envKey, call.arg.env, call.arg.url))

FnNext ==
    \/ CallEnrichContent
    \/ CallLoadConfig
    \/ CallIsPathSafe
    \/ CallValidateContent
    \/ CallFinalContent

SpecFn == FnInit /\ [][FnNext]_vars

\* the components of a path, with "/" or "\" as the separator
Components(path) ==
    Split([i \in 1..Len(path) |-> IF path[i] = "\\" THEN "/" ELSE path[i]], "/")

\* some component of the path is ".."
HasTraversalSegment(path) ==
    \E i \in 1..Len(Components(path)) : Components(path)[i] = <<".", ".">>

\* C14: isPathSafe returns false for every path that has ".." as a
\* component, with "/" or "\" as the separator and also as the last
\* component, and true for every path that has none.
C14_PathGuard ==
    (call.fn = "isPathSafe" /\ call.done) => (call.res = ~HasTraversalSegment(call.arg))

\* C17: validateContent fails for every buffer longer than MaxFileSize,
\* 10*1024*1024 bytes, and returns nil for every buffer of at most that
\* length, the buffer of exactly that length and the empty buffer included.
C17_SizeLimit ==
    (call.fn = "validateContent" /\ call.done)
        => (call.res = (call.arg.len <= 10 * 1024 * 1024))

\* validateContent returned nil for a buffer of exactly MaxFileSize bytes
C17_Witness ==
    /\ call.fn = "validateContent"
    /\ call.done
    /\ call.arg.len = 10 * 1024 * 1024
    /\ call.res = TRUE

\* the fence lines of the merged content
FenceOpen == <<BT, BT, BT, "o", "l", "d">>
FenceClose == <<BT, BT, BT>>

\* C19: output artifact format. For every original content o and every text
\* e the provider returned, the merged content is exactly the trimmed e, two
\* newlines, the line ```old, the escaped o, a newline and the closing ```
\* line, with nothing before or after.
C19_ArtifactFormat ==
    (call.fn = "finalContent" /\ call.done)
        => call.res = TrimSpace(call.arg.e) \o <<"\n", "\n">> \o FenceOpen \o <<"\n">>
                        \o Escape(call.arg.o) \o <<"\n">> \o FenceClose

\* a merged content whose provider text had to be trimmed and whose original
\* held a fence
C19_Witness ==
    /\ call.fn = "finalContent"
    /\ call.done
    /\ TrimSpace(call.arg.e) # call.arg.e
    /\ TrimSpace(call.arg.e) # <<>>
    /\ Contains(call.arg.o, FenceClose)
    /\ Len(call.res) > Len(call.arg.e) + Len(call.arg.o)

\* what the merged content holds between the opening and the closing fence
\* line
InsideFence(res, e) ==
    SubSeq(res, Len(TrimSpace(e)) + 2 + Len(FenceOpen) + 1 + 1, Len(res) - 1 - Len(FenceClose))

\* C20: the fence cannot be broken out of. For every original content, what
\* stands between the opening and the closing fence line of the merged
\* content holds no run of three consecutive backticks.
C20_NoFenceInside ==
    (call.fn = "finalContent" /\ call.done)
        => ~Contains(InsideFence(call.res, call.arg.e), <<BT, BT, BT>>)

(***************************************************************************)
(* loadConfig and processDirectory for roots written in many ways          *)
(***************************************************************************)

\* output_dir and input_dir as a configuration may write them
OutputRoots ==
    { <<".", "/", "o">>,
      <<".", ".", "/", ".", ".", "/", ".", ".", "/", "x">>,
      <<"o", "/", ".", ".", "/", "x">>,
      <<"/", "w", "/", ".", ".", "/", "x">>,
      <<"o", ".", ".", "/", "x">> }
InputRoots ==
    { <<".", "/", "t">>, <<"/", "w", "/", "t">>, <<".", ".", "/", "t">>,
      <<"t", ".", ".", "/", "i">> }

RootsInit ==
    /\ NoLimiter
    /\ call = NoCall
    /\ \E i \in InputRoots, o \in OutputRoots, e \in {<<>>, F_da} :
          store = [input_dir |-> i, output_dir |-> o, excluded_files |-> e]
    /\ storeTmp = <<>>
    /\ tree \in {s \in SUBSET Universe : 1 <= Cardinality(s) /\ Cardinality(s) <= MaxDocs}
    /\ out = <<>>
    /\ dirs = {}
    /\ temp = <<>>
    /\ config = NoConfig
    /\ pc = "main"
    /\ run = 1
    /\ todo = <<>>
    /\ pf = NoPf
    /\ sw = NoSw
    /\ tokens = 0
    /\ hist = [f \in tree |-> NoHist]
    /\ start = [store |-> store, out |-> out, dirs |-> dirs]
    /\ added = {}
    /\ prev = [written |-> {}, ledgerOK |-> TRUE]
    /\ walkErr = FALSE
    /\ faults = 0

\* main up to the first call of processFile
RootsNext ==
    \/ LoadConfig
    \/ ProcessDirectoryStart
    \/ WalkVisit
    \/ WalkEnd

SpecRoots == RootsInit /\ [][RootsNext]_vars

\* C16: a configuration whose output root or input root is written with a
\* ".." component is refused. The run gets no further than loadConfig and
\* the start of processDirectory, no document is handed to processFile, and
\* with such an output root loadConfig itself fails and creates no
\* directory.
C16_TraversalRootRefused ==
    /\ (HasTraversalSegment(store.input_dir) \/ HasTraversalSegment(store.output_dir))
       => /\ pc \in {"main", "pd", "fatal"}
          /\ \A f \in tree : hist[f].pf = 0
    /\ HasTraversalSegment(store.output_dir)
       => /\ pc \in {"main", "fatal"}
          /\ dirs = {}

(***************************************************************************)
(* processFile called on its own                                           *)
(***************************************************************************)

\* the document whose path processFile is given, and how the input path and
\* the output path are written: under the roots, or with ".." components
PFDocs == {F_a, F_da, F_big}
PFInputPath(cfgInputDir, f, how) ==
    IF how = "root" THEN Join(Abs(cfgInputDir), f)
    ELSE IF how = "dotdot" THEN <<".", ".", "/", ".", ".", "/">> \o f
    ELSE Abs(cfgInputDir) \o <<"/", ".", ".", "/", "t", "/">> \o f
PFOutputPath(cfgOutputDir, f, how) ==
    IF how = "root" THEN OutputPathOf(cfgOutputDir, f)
    ELSE IF how = "dotdot" THEN <<".", ".", "/", ".", ".", "/", "o", "/">> \o f
    ELSE Abs(cfgOutputDir) \o <<"/", "d", "\\", ".", ".", "\\">> \o f
PathForms == {"root", "dotdot", "inner"}

\* processFile(config, inputPath, outputPath, configPath, rateLimiter) is
\* called with a loaded configuration and a full RateLimiter
PFInit ==
    /\ NoLimiter
    /\ call = NoCall
    /\ \E i \in InputDirs, o \in OutputDirs, e \in {<<>>, F_a} :
          /\ store = [input_dir |-> i, output_dir |-> o, excluded_files |-> e]
          /\ config = [InputDir |-> i, OutputDir |-> o,
                       ExcludedFiles |-> ParseExcluded(e), ModelAPIURL |-> ApiURL,
                       Temperature |-> "0.7"]
    /\ storeTmp = <<>>
    /\ \E f \in PFDocs, hi \in PathForms, ho \in PathForms, old \in BOOLEAN :
          /\ tree = {f}
          /\ pf = [NoPf EXCEPT !.doc = f,
                               !.inputPath = PFInputPath(store.input_dir, f, hi),
                               !.outputPath = PFOutputPath(store.output_dir, f, ho)]
          /\ hist = [g \in {f} |-> [NoHist EXCEPT !.pf = 1]]
          /\ out = [p \in {x \in {pf.outputPath} : old} |->
                      [data |-> <<"o", "l", "d">>, perm |-> PermOutput]]
    /\ dirs = {Abs(store.output_dir)}
    /\ temp = <<>>
    /\ pc = "pf"
    /\ run = 1
    /\ todo = <<>>
    /\ sw = NoSw
    /\ tokens = InitialTokens(RequestsPerMinute)
    /\ start = [store |-> store, out |-> out, dirs |-> dirs]
    /\ added = {}
    /\ prev = [written |-> {}, ledgerOK |-> TRUE]
    /\ walkErr = FALSE
    /\ faults = 0

PFNext ==
    \/ PFRead
    \/ Tick
    \/ EnrichWait
    \/ EnrichRequest
    \/ EnrichAnswer
    \/ PFAfterEnrich
    \/ PFMkdir
    \/ SWCreate
    \/ SWWrite
    \/ SWClose
    \/ SWChmod
    \/ SWRename
    \/ SWCleanup
    \/ PFAfterWrite
    \/ Ledger
    \/ LedgerRetry

SpecPF == PFInit /\ [][PFNext]_vars

\* the path holds "../" or "..\"
Unsafe(path) == Contains(path, <<".", ".", "/">>) \/ Contains(path, <<".", ".", "\\">>)

\* what processFile may touch besides its own locals
Touched == <<store, storeTmp, out, dirs, temp, tokens, added, faults>>

\* C15: processFile called with an input path or an output path that fails
\* isPathSafe returns the unsafe-path error as its first and only step: the
\* input file is not read, no token is taken, no request is sent, no file or
\* directory is created and the exclusion set stays as it was.
C15_UnsafePathRefused ==
    [][(pc = "pf" /\ (Unsafe(pf.inputPath) \/ Unsafe(pf.outputPath)))
        => /\ pc' = "walk"
           /\ hist'[pf.doc].st = "failed"
           /\ hist'[pf.doc].why = "unsafe"
           /\ hist'[pf.doc].reads = 0
           /\ hist'[pf.doc].toks = 0
           /\ hist'[pf.doc].calls = 0
           /\ hist'[pf.doc].ledger = 0
           /\ UNCHANGED Touched]_vars

\* processFile returned the unsafe-path error for an output path with a
\* "..\" in it, where a file stood from before; nothing was touched
C15_Witness ==
    /\ pc = "walk"
    /\ \E f \in tree :
          /\ hist[f].why = "unsafe"
          /\ PFOutputPath(store.output_dir, f, "inner") \in DOMAIN out
    /\ store = start.store
    /\ tokens = RequestsPerMinute

\* C18: validation precedes the network. For a document longer than
\* MaxFileSize, processFile returns the size error without a token taken,
\* a request sent, an output file created or a ledger entry made.
C18_ValidationBeforeNetwork ==
    \A f \in tree :
        Content(f).len > 10 * 1024 * 1024 =>
            /\ hist[f].toks = 0
            /\ hist[f].calls = 0
            /\ hist[f].ledger = 0
            /\ pc \in {"pf", "walk"}
            /\ out = start.out
            /\ dirs = start.dirs
            /\ temp = <<>>
            /\ store = start.store
            /\ storeTmp = <<>>
            /\ tokens = RequestsPerMinute
            /\ (pc = "walk" => hist[f].st = "failed")

\* processFile read the oversized document and returned the size error
C18_Witness ==
    /\ pc = "walk"
    /\ \E f \in tree :
          /\ Content(f).len > 10 * 1024 * 1024
          /\ hist[f].why = "toolarge"
          /\ hist[f].reads = 1

(***************************************************************************)
(* Properties of enrichContent                                             *)
(***************************************************************************)

\* C21: for every answer whose status is not a success status (2xx),
\* enrichContent returns the status error, which carries the status code
\* and the body as received, whatever the body is: it is not read as a
\* generated-text response. A 500 yields an error with the code 500.
C21_StatusError ==
    (/\ call.fn = "enrichContent"
     /\ call.done
     /\ call.res.sent
     /\ ~call.arg.resp.transport
     /\ call.arg.resp.status \notin 200..299)
    => /\ call.res.kind = "status"
       /\ call.res.code = call.arg.resp.status
       /\ call.res.body = call.arg.resp.body

\* a 500 whose body would have been a good generated-text response
C21_Witness ==
    /\ call.fn = "enrichContent"
    /\ call.done
    /\ call.arg.resp.status = 500
    /\ call.arg.resp.body = [json |-> TRUE, val |-> GoodBody]
    /\ call.res.kind = "status"
    /\ call.res.code = 500

\* the first field on the extraction path of a provider variant that is
\* absent, empty or of another type in the JSON object, "" when none is
OffendingField(variant, data) ==
    IF variant = "openai"
    THEN IF JField(data, "choices").t # "array" \/ JField(data, "choices").v = <<>>
         THEN "choices"
         ELSE IF JField(data, "choices").v[1].t # "object" THEN "choices[0]"
         ELSE IF JField(JField(data, "choices").v[1], "message").t # "object" THEN "message"
         ELSE IF JField(JField(JField(data, "choices").v[1], "message"), "content").t # "string"
         THEN "content"
         ELSE ""
    ELSE IF variant = "anthropic"
    THEN IF JField(data, "content").t # "array" \/ JField(data, "content").v = <<>>
         THEN "content"
         ELSE IF JField(data, "content").v[1].t # "object" THEN "content[0]"
         ELSE IF JField(JField(data, "content").v[1], "text").t # "string" THEN "text"
         ELSE ""
    ELSE IF JField(data, "text").t # "string" THEN "text" ELSE ""

\* C22: for every provider variant and every 200 answer whose JSON object
\* lacks a field of the extraction path, or has it empty or of another type,
\* enrichContent fails with a malformed-response error, not the JSON parse
\* error, and the error names that field.
C22_MalformedNamesField ==
    (/\ call.fn = "enrichContent"
     /\ call.done
     /\ call.res.sent
     /\ ~call.arg.resp.transport
     /\ call.arg.resp.status = 200
     /\ ~call.arg.resp.readErr
     /\ call.arg.resp.body.json
     /\ OffendingField(call.res.response, call.arg.resp.body.val) # "")
    => /\ call.res.kind = "malformed"
       /\ call.res.field = OffendingField(call.res.response, call.arg.resp.body.val)

\* C23: provider selection is consistent within one call. For every API
\* URL, the variant whose response shape enrichContent extracts the text
\* with is the variant whose request shape it built the request with.
C23_SameVariant ==
    (call.fn = "enrichContent" /\ call.done) => call.res.request = call.res.response

(***************************************************************************)
(* Properties of processFile after the write                               *)
(***************************************************************************)

\* C24: a ledger failure is tolerated. For a written document
\* addToExcludedFiles is called at most twice, the second time only after
\* the first failed; each failure is logged; and processFile returns nil:
\* the document ends written, never failed, whatever the ledger did.
C24_LedgerFailureTolerated ==
    \A f \in tree :
        /\ hist[f].ledger <= 2
        /\ hist[f].ledger = 2 => hist[f].warns >= 1
        /\ hist[f].warns = hist[f].ledger - (IF hist[f].lres = "ok" THEN 1 ELSE 0)
        /\ hist[f].st = "failed" => hist[f].ledger = 0
        /\ (hist[f].ledger >= 1 /\ pc \notin {"ledger", "retry"}) => hist[f].st = "written"

\* both ledger updates failed and the document ended written
C24_Witness ==
    /\ pc = "walk"
    /\ \E f \in tree :
          /\ hist[f].ledger = 2
          /\ hist[f].lres = "failed"
          /\ hist[f].warns = 2
          /\ hist[f].st = "written"
    /\ store = start.store

(***************************************************************************)
(* Properties of safeWriteFile                                             *)
(***************************************************************************)

\* C25 as stated: whenever safeWriteFile returns an error, its temporary
\* file no longer exists and the destination is as it was before the call.
C25_FailureCleanup ==
    (pc = "sw_return" /\ sw.res = "err") =>
        /\ temp = <<>>
        /\ out = start.out

\* C25, amended: whenever safeWriteFile returns an error, the destination is
\* as it was before the call, and the temporary file no longer exists unless
\* os.Remove itself failed, which is logged; os.Remove is attempted on every
\* error after the temporary file was created.
C25_FailureCleanupUnlessRemoveFails ==
    (pc = "sw_return" /\ sw.res = "err") =>
        /\ out = start.out
        /\ FileAt(out, sw.path) = FileAt(start.out, sw.path)
        /\ temp # <<>> <=> sw.rm = "failed"
        /\ temp = <<>> => sw.rm \in {"-", "ok"}

\* safeWriteFile failed after it had written a part of the data, removed its
\* temporary file, and the destination holds its earlier content
C25_Witness ==
    /\ pc = "sw_return"
    /\ sw.res = "err"
    /\ sw.rm = "ok"
    /\ temp = <<>>
    /\ sw.path \in DOMAIN out
    /\ out[sw.path].data # sw.data
    /\ out = start.out

\* C26: safeWriteFile creates the destination directory. A call whose
\* destination lies in a directory that does not exist creates the directory
\* and succeeds: it does not return an error because of the missing
\* directory, and when it returns the directory exists.
C26_CreatesDirectory ==
    (Dir(sw.path) \notin start.dirs /\ pc = "sw_return") =>
        /\ Dir(sw.path) \in dirs
        /\ sw.res = "ok" \/ faults > 0

\* C27: safeWriteFile round trip. After safeWriteFile(path, data, perm)
\* returned nil, the file at path holds exactly data, whatever it held
\* before, its permission bits are perm, and the temporary file of the call
\* is gone; no other path of the directory was written.
C27_RoundTrip ==
    (pc = "sw_return" /\ sw.res = "ok") =>
        /\ sw.path \in DOMAIN out
        /\ out[sw.path].data = sw.data
        /\ out[sw.path].perm = sw.perm
        /\ temp = <<>>
        /\ DOMAIN out = DOMAIN start.out \cup {sw.path}

\* a successful call that replaced longer content of another mode by data
C27_Witness ==
    /\ pc = "sw_return"
    /\ sw.res = "ok"
    /\ sw.path \in DOMAIN start.out
    /\ Len(start.out[sw.path].data) > Len(sw.data)
    /\ start.out[sw.path].perm # sw.perm
    /\ out[sw.path] = [data |-> sw.data, perm |-> sw.perm]

(***************************************************************************)
(* Properties of loadConfig                                                *)
(***************************************************************************)

\* C28: credential resolution. When api_key_env names a variable that is set
\* and not empty, APIKey is that variable's value, a literal api_key or not;
\* otherwise APIKey is the literal api_key; and only when both are empty is
\* it the value of OPENAI_API_KEY, OPENROUTER_API_KEY or ANTHROPIC_API_KEY,
\* as the API URL names the provider, and empty for a URL that names none.
C28_CredentialResolution ==
    (call.fn = "loadConfig" /\ call.done) =>
        LET a == call.arg
            named == IF a.envKey = "" THEN <<>> ELSE Getenv(a.env, a.envKey)
            u == ToLower(a.url)
            defaults == {Getenv(a.env, n) : n \in {"OPENAI_API_KEY", "OPENROUTER_API_KEY",
                                                   "ANTHROPIC_API_KEY"}}
        IN  /\ named # <<>> => call.res = named
            /\ (named = <<>> /\ a.literal # <<>>) => call.res = a.literal
            /\ (named = <<>> /\ a.literal = <<>>) =>
                  /\ call.res \in defaults \cup {<<>>}
                  /\ Contains(u, Str_openai) => call.res = Getenv(a.env, "OPENAI_API_KEY")
                  /\ (Contains(u, Str_openrouter) /\ ~Contains(u, Str_openai)) =>
                        call.res = Getenv(a.env, "OPENROUTER_API_KEY")
                  /\ (Contains(u, Str_anthropic) /\ ~Contains(u, Str_openai)
                      /\ ~Contains(u, Str_openrouter)) =>
                        call.res = Getenv(a.env, "ANTHROPIC_API_KEY")
                  /\ (~Contains(u, Str_anthropic) /\ ~Contains(u, Str_openai)
                      /\ ~Contains(u, Str_openrouter)) => call.res = <<>>
            /\ call.res \notin {named, a.literal} => (named = <<>> /\ a.literal = <<>>)

\* a literal api_key is present and the variable api_key_env names is set:
\* APIKey is the variable's value
C28_Witness ==
    /\ call.fn = "loadConfig"
    /\ call.done
    /\ call.arg.literal = <<"test_key">>
    /\ call.arg.envKey = "TEST_API_KEY"
    /\ call.res = <<"env", "TEST_API_KEY">>

(***************************************************************************)
(* Properties of processDirectory's selection                              *)
(***************************************************************************)

\* C29: only recognized documents are processed. When the walk is over, a
\* file under the input root was passed to processFile if and only if its
\* name ends in .md, letter case aside, and its cleaned relative path is not
\* in the exclusion set; a file that was not passed was not read, took no
\* token, caused no provider call and no ledger call, and its output path is
\* as the run found it. (A walk that Walk itself ended with an error is left
\* aside.)
C29_OnlyRecognizedProcessed ==
    (pc = "done" /\ ~WalkFailed) =>
        \A f \in tree :
            /\ hist[f].pf = 1 <=> (IsMarkdown(Base(f)) /\ Clean(f) \notin StartExcluded)
            /\ hist[f].pf = 0 =>
                  /\ hist[f].reads = 0
                  /\ hist[f].toks = 0
                  /\ hist[f].calls = 0
                  /\ hist[f].ledger = 0
                  /\ FileAt(out, OutOf(f)) = FileAt(start.out, OutOf(f))

(***************************************************************************)
(* Properties of enrichContent inside processFile                          *)
(***************************************************************************)

\* C30: one token, one request, no retry. A call of enrichContent takes
\* exactly one token, before the request; it sends at most one request; after
\* the answer, an error included, it does not go back to waiting or sending,
\* and nothing but the refill, a step that does nothing else, ever adds a
\* token to the bucket.
C30_OneTokenOneRequest ==
    /\ [](\A f \in tree :
            /\ hist[f].calls <= hist[f].toks
            /\ hist[f].toks <= hist[f].pf
            /\ (pc = "request" /\ pf.doc = f) => (hist[f].toks = 1 /\ hist[f].calls = 0)
            /\ (pc = "answer" /\ pf.doc = f) => (hist[f].toks = 1 /\ hist[f].calls = 1)
            /\ tokens >= RequestsPerMinute - hist[f].toks
            /\ hist[f].why = "enrich" => (hist[f].toks = 1 /\ hist[f].calls <= 1))
    /\ [][/\ tokens' < tokens => (pc = "wait" /\ pc' = "request" /\ tokens' = tokens - 1)
          /\ tokens' > tokens =>
                (tokens' = tokens + 1 /\ pc' = pc /\ pf' = pf /\ hist' = hist /\ out' = out)
          /\ (pc = "wait" /\ pc' # "wait") =>
                (pc' = "request" /\ tokens' = tokens - 1 /\ hist' # hist)
          /\ pc = "request" => pc' \in {"request", "answer", "enriched"}
          /\ hist' # hist /\ pc = "request" => pc' = "answer"
          /\ pc = "answer" => (pc' \in {"answer", "enriched"} /\ hist' = hist)
          /\ pc = "enriched" => pc' \in {"enriched", "mkdir", "walk"}]_vars

\* a request failed: the document is failed after one token and one request,
\* and the token is not back in the bucket
C30_Witness ==
    /\ pc = "walk"
    /\ \E f \in tree :
          /\ hist[f].why = "enrich"
          /\ hist[f].toks = 1
          /\ hist[f].calls = 1
    /\ tokens = RequestsPerMinute - 1

(***************************************************************************)
(* addToExcludedFiles step by step, with an interruption at any step       *)
(***************************************************************************)

\* addToExcludedFiles(configPath, p) is called on a store that holds every
\* key loadConfig reads (lines 154-207); a .tmp file of an earlier call that
\* failed may lie beside it
StoreInit ==
    /\ NoLimiter
    /\ tokens = 0
    /\ \E v \in LedgerValues :
          store = [input_dir |-> <<".", "/", "t">>, output_dir |-> <<".", "/", "o">>,
                   excluded_files |-> v,
                   name |-> <<"g", "p", "t">>, api_url |-> ApiURL,
                   api_key |-> <<"k", "e", "y">>, api_key_env |-> <<>>,
                   temperature |-> <<"0", ".", "7">>, max_tokens |-> <<"1", "0", "0", "0">>,
                   text |-> <<"p", "\n", "q">>]
    /\ storeTmp \in {<<>>, <<[excluded_files |-> <<"x">>]>>}
    /\ tree = {}
    /\ out = <<>>
    /\ dirs = {}
    /\ temp = <<>>
    /\ config = NoConfig
    /\ pc = "atl_load"
    /\ run = 1
    /\ todo = <<>>
    /\ pf = NoPf
    /\ sw = NoSw
    /\ hist = <<>>
    /\ start = [store |-> store, out |-> out, dirs |-> dirs]
    /\ added = {}
    /\ prev = [written |-> {}, ledgerOK |-> TRUE]
    /\ walkErr = FALSE
    /\ faults = 0
    /\ \E p \in LedgerPaths :
          call = [fn |-> "addToExcludedFiles", arg |-> p, new |-> <<>>, res |-> "-"]

\* addToExcludedFiles up to SetValue (lines 467-495): ini.Load, the check
\* for the path, the new value set in the loaded configuration; call.new is
\* that configuration, every key of the store with one value changed
ATLoad ==
    /\ pc = "atl_load"
    /\ \/ /\ faults < MaxFaults
          /\ faults' = faults + 1
          /\ call' = [call EXCEPT !.res = "err"]
          /\ pc' = "atl_return"
       \/ /\ UNCHANGED faults
          /\ IF AlreadyExcluded(store.excluded_files, call.arg)
             THEN call' = [call EXCEPT !.res = "ok"] /\ pc' = "atl_return"
             ELSE /\ call' = [call EXCEPT !.new =
                                [store EXCEPT !.excluded_files =
                                    AddedValue(store.excluded_files, call.arg)]]
                  /\ pc' = "atl_save"
    /\ UNCHANGED <<store, storeTmp, tree, out, dirs, temp, config, run, todo, pf, sw, tokens, hist,
                   start, added, prev, walkErr, rlVars>>

\* a save that writes the configuration over the store itself
ATSaveMut ==
    /\ pc = "atl_save"
    /\ \/ /\ store' = call.new
          /\ call' = [call EXCEPT !.res = "ok"]
          /\ pc' = "atl_return"
          /\ UNCHANGED faults
       \/ /\ faults < MaxFaults
          /\ faults' = faults + 1
          /\ store' = [store EXCEPT !.excluded_files = <<>>]
          /\ call' = [call EXCEPT !.res = "err"]
          /\ pc' = "atl_return"
    /\ UNCHANGED <<storeTmp, tree, out, dirs, temp, config, run, todo, pf, sw, tokens, hist,
                   start, added, prev, walkErr, rlVars>>

\* cfg.SaveTo(configPath + ".tmp") (lines 497-500): the temporary file
\* holds every key of the loaded configuration, excluded_files with its new
\* value; on an error the file was not created, or holds no key yet
ATSave ==
    /\ pc = "atl_save"
    /\ \/ /\ storeTmp' = <<call.new>>
          /\ pc' = "atl_rename"
          /\ UNCHANGED <<call, faults>>
       \/ /\ faults < MaxFaults
          /\ faults' = faults + 1
          /\ storeTmp' \in {storeTmp, <<<<>>>>}
          /\ call' = [call EXCEPT !.res = "err"]
          /\ pc' = "atl_return"
    /\ UNCHANGED <<store, tree, out, dirs, temp, config, run, todo, pf, sw, tokens, hist,
                   start, added, prev, walkErr, rlVars>>

\* os.Rename(tempFile, configPath) (lines 502-507): the temporary file
\* takes the place of the store, which from then on holds what SaveTo wrote
ATRename ==
    /\ pc = "atl_rename"
    /\ \/ /\ store' = storeTmp[1]
          /\ storeTmp' = <<>>
          /\ call' = [call EXCEPT !.res = "ok"]
          /\ UNCHANGED faults
       \/ /\ faults < MaxFaults
          /\ faults' = faults + 1
          /\ call' = [call EXCEPT !.res = "err"]
          /\ UNCHANGED <<store, storeTmp>>
    /\ pc' = "atl_return"
    /\ UNCHANGED <<tree, out, dirs, temp, config, run, todo, pf, sw, tokens, hist,
                   start, added, prev, walkErr, rlVars>>

StoreNext ==
    \/ ATLoad
    \/ ATSave
    \/ ATRename
    \/ Interrupt

SpecStore == StoreInit /\ [][StoreNext]_vars

\* C31: the ledger store is never truncated. Until the rename, after an
\* interruption before it, and after a call that returned an error, the
\* store holds the complete content it had before the call; and a call that
\* did not put a missing path into the store returned an error.
C31_StoreNeverTruncated ==
    /\ (pc \in {"atl_load", "atl_save", "atl_rename", "interrupted"} \/ call.res = "err")
          => store = start.store
    /\ store.excluded_files \in {start.store.excluded_files,
                                 AddedValue(start.store.excluded_files, call.arg)}
    /\ (/\ pc = "atl_return"
        /\ store = start.store
        /\ ~AlreadyExcluded(start.store.excluded_files, call.arg)) => call.res = "err"

\* the save of the temporary file failed after a part of it: the call
\* returned an error and the store holds its earlier, longer content
C31_Witness ==
    /\ pc = "atl_return"
    /\ call.res = "err"
    /\ storeTmp = <<<<>>>>
    /\ store.excluded_files # <<>>
    /\ store = start.store

(***************************************************************************)
(* One run whose output root is the input root                             *)
(***************************************************************************)

\* main is started with a configuration whose output_dir is its input_dir,
\* or a directory apart from it; loadConfig and processDirectory accept both
OverlapInit ==
    /\ NoLimiter
    /\ call = NoCall
    /\ \E o \in {<<"/", "w", "/", "t">>, <<"/", "w", "/", "o">>} :
          store = [input_dir |-> <<"/", "w", "/", "t">>, output_dir |-> o,
                   excluded_files |-> <<>>]
    /\ storeTmp = <<>>
    /\ tree \in {s \in SUBSET {F_a, F_da, F_txt} :
                    1 <= Cardinality(s) /\ Cardinality(s) <= MaxDocs}
    /\ out = <<>>
    /\ dirs = {}
    /\ temp = <<>>
    /\ config = NoConfig
    /\ pc = "main"
    /\ run = 1
    /\ todo = <<>>
    /\ pf = NoPf
    /\ sw = NoSw
    /\ tokens = 0
    /\ hist = [f \in tree |-> NoHist]
    /\ start = [store |-> store, out |-> out, dirs |-> dirs]
    /\ added = {}
    /\ prev = [written |-> {}, ledgerOK |-> TRUE]
    /\ walkErr = FALSE
    /\ faults = 0

\* main: loadConfig, processDirectory and processFile for every file
OverlapNext == RootsNext \/ PFNext

SpecOverlap == OverlapInit /\ [][OverlapNext]_vars

\* path p lies under the directory root
IsUnder(root, p) ==
    /\ Len(p) > Len(root) + 1
    /\ SubSeq(p, 1, Len(root)) = root
    /\ p[Len(root) + 1] = "/"

\* C32: input documents are never mutated. Whatever configuration the run
\* accepted, no path under the input root is written by the pipeline: no
\* document is overwritten, no file is created there, and no temporary file
\* of safeWriteFile lies there.
C32_InputsNeverMutated ==
    /\ \A p \in DOMAIN out : ~IsUnder(Abs(store.input_dir), p)
    /\ \A f \in tree : Join(Abs(store.input_dir), f) \notin DOMAIN out
    /\ temp # <<>> => ~IsUnder(Abs(store.input_dir), temp[1].dir \o <<"/", "x">>)

(***************************************************************************)
(* Properties of addToExcludedFiles and loadConfig together                *)
(***************************************************************************)

\* C33: ledger round trip. After addToExcludedFiles(store, p) returned nil,
\* the list loadConfig reads from the store has one entry that is p in its
\* cleaned form, and begins with the entries loadConfig read before the call.
C33_LedgerRoundTrip ==
    \A i \in 1..Len(call.log) :
        call.log[i].ok =>
            /\ \E j \in 1..Len(EntriesOf(call.log[i].after)) :
                  EntriesOf(call.log[i].after)[j] = Clean(call.log[i].path)
            /\ IsPrefixOf(ParseExcluded(call.log[i].before), ParseExcluded(call.log[i].after))

(***************************************************************************)
(* Two calls of safeWriteFile at once, for two paths of one directory      *)
(***************************************************************************)

\* the names os.CreateTemp can give a temp_*.tmp file
TempNames == {1, 2, 3}

\* two calls safeWriteFile(path, data, 0644) begin, with different paths in
\* one existing directory; call.w keeps each call's arguments, position,
\* temporary file name (0: none) and result, call.tmps the temporary files,
\* call.overlap whether a temporary file was created beside the other call's
CWInit ==
    /\ NoLimiter
    /\ tokens = 0
    /\ store = [input_dir |-> <<>>, output_dir |-> <<>>, excluded_files |-> <<>>]
    /\ storeTmp = <<>>
    /\ tree = {}
    /\ \E old \in SUBSET {OutputPathOf(<<"/", "w", "/", "o">>, F_a)} :
          out = [p \in old |-> [data |-> <<"o", "l", "d">>, perm |-> PermOutput]]
    /\ dirs = {<<"/", "w", "/", "o">>}
    /\ temp = <<>>
    /\ config = NoConfig
    /\ pc = "two"
    /\ run = 1
    /\ todo = <<>>
    /\ pf = NoPf
    /\ sw = NoSw
    /\ hist = <<>>
    /\ start = [store |-> store, out |-> out, dirs |-> dirs]
    /\ added = {}
    /\ prev = [written |-> {}, ledgerOK |-> TRUE]
    /\ walkErr = FALSE
    /\ faults = 0
    /\ \E d1 \in {<<"x">>, <<"x", "y">>}, d2 \in {<<>>, <<"z">>} :
          call = [fn |-> "safeWriteFile",
                  w |-> <<[path |-> OutputPathOf(<<"/", "w", "/", "o">>, F_a), data |-> d1,
                           perm |-> PermOutput, pc |-> "sw_create", tmp |-> 0, res |-> "-",
                           rm |-> "-"],
                          [path |-> OutputPathOf(<<"/", "w", "/", "o">>, F_big), data |-> d2,
                           perm |-> PermOutput, pc |-> "sw_create", tmp |-> 0, res |-> "-",
                           rm |-> "-"]>>,
                  tmps |-> <<>>, overlap |-> FALSE]

\* what a step of one of the two calls leaves alone
CWFrame == UNCHANGED <<store, storeTmp, tree, dirs, temp, config, pc, run, todo, pf, sw,
                       tokens, hist, start, added, prev, walkErr, rlVars>>

\* the temporary files with file n set to f, and with file n removed
WithTemp(tmps, n, f) == [m \in DOMAIN tmps \cup {n} |-> IF m = n THEN f ELSE tmps[m]]
WithoutTemp(tmps, n) == [m \in DOMAIN tmps \ {n} |-> tmps[m]]

\* a temporary file with one fixed name, truncated when it exists
CWCreateMut(i) ==
    /\ call.w[i].pc = "sw_create"
    /\ call' = [call EXCEPT !.w[i].pc = "sw_write", !.w[i].tmp = 1,
                            !.tmps = WithTemp(@, 1, [data |-> <<>>, perm |-> PermTemp])]
    /\ UNCHANGED <<out, faults>>
    /\ CWFrame

\* call i, os.CreateTemp(dir, "temp_*.tmp") (lines 513-518): a new file
\* under a name that no file of the directory has
CWCreate(i) ==
    /\ call.w[i].pc = "sw_create"
    /\ \/ /\ \E n \in TempNames \ DOMAIN call.tmps :
                call' = [call EXCEPT !.w[i].pc = "sw_write", !.w[i].tmp = n,
                                     !.tmps = WithTemp(@, n, [data |-> <<>>, perm |-> PermTemp]),
                                     !.overlap = @ \/ call.w[3 - i].tmp # 0]
          /\ UNCHANGED faults
       \/ /\ faults < MaxFaults
          /\ faults' = faults + 1
          /\ call' = [call EXCEPT !.w[i].pc = "sw_return", !.w[i].res = "err"]
    /\ UNCHANGED out
    /\ CWFrame

\* call i, tempFile.Write(data) (lines 521-529): all of data, or an error
\* after a part of it, which the temporary file then holds
CWWrite(i) ==
    /\ call.w[i].pc = "sw_write"
    /\ LET n == call.w[i].tmp
           d == call.w[i].data
       IN \/ /\ call' = [call EXCEPT !.w[i].pc = "sw_close",
                                     !.tmps = IF n \in DOMAIN @
                                              THEN WithTemp(@, n, [@[n] EXCEPT !.data = d])
                                              ELSE @]
             /\ UNCHANGED faults
          \/ /\ faults < MaxFaults
             /\ faults' = faults + 1
             /\ \E k \in {0, 1, Len(d) - 1} \cap (0..(Len(d) - 1)) :
                   call' = [call EXCEPT !.w[i].pc = "sw_cleanup",
                                        !.tmps = IF n \in DOMAIN @
                                                 THEN WithTemp(@, n, [@[n] EXCEPT !.data = Take(d, k)])
                                                 ELSE @]
    /\ UNCHANGED out
    /\ CWFrame

\* call i, tempFile.Close() (lines 531-536)
CWClose(i) ==
    /\ call.w[i].pc = "sw_close"
    /\ \/ /\ call' = [call EXCEPT !.w[i].pc = "sw_chmod"]
          /\ UNCHANGED faults
       \/ /\ faults < MaxFaults
          /\ faults' = faults + 1
          /\ call' = [call EXCEPT !.w[i].pc = "sw_cleanup"]
    /\ UNCHANGED out
    /\ CWFrame

\* call i, os.Chmod(tempPath, perm) (lines 538-544)
CWChmod(i) ==
    /\ call.w[i].pc = "sw_chmod"
    /\ LET n == call.w[i].tmp
       IN \/ /\ call' = [call EXCEPT !.w[i].pc = "sw_rename",
                                     !.tmps = IF n \in DOMAIN @
                                              THEN WithTemp(@, n, [@[n] EXCEPT !.perm = call.w[i].perm])
                                              ELSE @]
             /\ UNCHANGED faults
          \/ /\ faults < MaxFaults
             /\ faults' = faults + 1
             /\ call' = [call EXCEPT !.w[i].pc = "sw_cleanup"]
    /\ UNCHANGED out
    /\ CWFrame

\* call i, os.Rename(tempPath, path) (lines 547-554): fails when tempPath
\* is not there
CWRename(i) ==
    /\ call.w[i].pc = "sw_rename"
    /\ LET n == call.w[i].tmp
       IN \/ /\ n \in DOMAIN call.tmps
             /\ out' = Renamed(out, call.w[i].path, call.tmps[n])
             /\ call' = [call EXCEPT !.w[i].pc = "sw_return", !.w[i].res = "ok",
                                     !.w[i].tmp = 0, !.tmps = WithoutTemp(@, n)]
             /\ UNCHANGED faults
          \/ /\ n \notin DOMAIN call.tmps
             /\ call' = [call EXCEPT !.w[i].pc = "sw_cleanup"]
             /\ UNCHANGED <<out, faults>>
          \/ /\ n \in DOMAIN call.tmps
             /\ faults < MaxFaults
             /\ faults' = faults + 1
             /\ call' = [call EXCEPT !.w[i].pc = "sw_cleanup"]
             /\ UNCHANGED out
    /\ CWFrame

\* call i, the error paths (lines 522-551): os.Remove(tempPath), whose own
\* error is only logged; the error of the failed step is returned
CWCleanup(i) ==
    /\ call.w[i].pc = "sw_cleanup"
    /\ \/ /\ call' = [call EXCEPT !.w[i].pc = "sw_return", !.w[i].res = "err",
                                  !.w[i].rm = "ok", !.w[i].tmp = 0,
                                  !.tmps = WithoutTemp(@, call.w[i].tmp)]
          /\ UNCHANGED faults
       \/ /\ faults < MaxFaults
          /\ faults' = faults + 1
          /\ call' = [call EXCEPT !.w[i].pc = "sw_return", !.w[i].res = "err",
                                  !.w[i].rm = "failed", !.w[i].tmp = 0]
    /\ UNCHANGED out
    /\ CWFrame

CWNext ==
    \E i \in {1, 2} :
        \/ CWCreate(i)
        \/ CWWrite(i)
        \/ CWClose(i)
        \/ CWChmod(i)
        \/ CWRename(i)
        \/ CWCleanup(i)

SpecTwoWriters == CWInit /\ [][CWNext]_vars

\* C35: concurrent writes to distinct paths do not interfere. However the
\* steps of the two calls interleave, the calls never hold the same
\* temporary file, a call that returned nil has left exactly its own data,
\* with its mode, at its own path, and a path whose call has not renamed
\* holds what it held before.
C35_DistinctPathsIndependent ==
    /\ (call.w[1].tmp # 0 /\ call.w[2].tmp # 0) => call.w[1].tmp # call.w[2].tmp
    /\ \A i \in {1, 2} :
          /\ call.w[i].res = "ok" =>
                FileAt(out, call.w[i].path) =
                    <<[data |-> call.w[i].data, perm |-> call.w[i].perm]>>
          /\ call.w[i].res # "ok" =>
                FileAt(out, call.w[i].path) = FileAt(start.out, call.w[i].path)
    /\ (/\ call.w[1].pc = "sw_return"
        /\ call.w[2].pc = "sw_return"
        /\ call.w[1].rm # "failed"
        /\ call.w[2].rm # "failed") => call.tmps = <<>>

\* both calls returned nil after their steps interleaved: the second call
\* created its temporary file while the first one's was still there
C35_Witness ==
    /\ call.w[1].res = "ok"
    /\ call.w[2].res = "ok"
    /\ out[call.w[1].path].data = call.w[1].data
    /\ out[call.w[2].path].data = call.w[2].data
    /\ call.w[1].data # call.w[2].data
    /\ call.overlap

(***************************************************************************)
(* Properties of a whole run                                               *)
(***************************************************************************)

\* how far each position of the pipeline is from the end of the run
PcRank ==
    [fatal |-> 0, done |-> 1, walk |-> 2, retry |-> 3, ledger |-> 4, sw_return |-> 5,
     sw_cleanup |-> 6, sw_rename |-> 7, sw_chmod |-> 8, sw_close |-> 9, sw_write |-> 10,
     sw_create |-> 11, mkdir |-> 12, enriched |-> 13, answer |-> 14, request |-> 15,
     wait |-> 16, pf |-> 17, pd |-> 5000, main |-> 6000]

\* a measure of what is left of the two runs: the runs, the files the walk has
\* not visited, the steps left for the file in hand, the tokens the refill
\* can still add before the bucket is full
Rank ==
    (2 - run) * 1000000 + Len(todo) * 1000 + PcRank[pc] * 10
        + (RequestsPerMinute - tokens)

\* every step that changes the state lowers the measure, so no run goes on
\* for ever
StepsLowerRank == [][Rank' < Rank]_vars

\* the pipeline whose finished runs stay where they are: with it, a state
\* without a next step is a run that is stuck before its end
Finished ==
    /\ pc = "fatal" \/ (pc = "done" /\ run = 2)
    /\ UNCHANGED vars

SpecFinished == Init /\ [][Next \/ Finished]_vars

\* C36: every run ends with every document decided. When processDirectory
\* has returned, every regular file under the input root is skipped, failed,
\* or written with its ledger update attempted; none is left in between.
\* (A walk that Walk itself ended with an error is left aside.)
C36_AllDecidedAtReturn ==
    (pc = "done" /\ ~WalkFailed) =>
        \A f \in tree :
            /\ hist[f].st \in {"skipped", "failed", "written"}
            /\ hist[f].st = "written" => hist[f].ledger >= 1

\* C37: at most one attempt per document per run. Within one run of
\* processDirectory each document is passed to processFile at most once, is
\* read at most once, takes at most one token and causes at most one provider
\* request; a document that was passed to processFile, failed or was skipped
\* is no longer on the walk's list, and only the document in hand is in
\* processFile.
C37_OneAttemptPerDocument ==
    \A f \in tree :
        /\ hist[f].pf <= 1
        /\ hist[f].reads <= 1
        /\ hist[f].toks <= 1
        /\ hist[f].calls <= 1
        /\ hist[f].pf = 1 \/ hist[f].st \in {"skipped", "failed", "written"} =>
                \A i \in 1..Len(todo) : todo[i] # f
        /\ hist[f].st \in {"skipped", "failed", "written"} => pf.doc # f

\* a document failed after its provider request, and the walk went on to
\* pass another document to processFile
C37_Witness ==
    \E f, g \in tree :
        /\ f # g
        /\ hist[f].st = "failed"
        /\ hist[f].calls = 1
        /\ hist[f].toks = 1
        /\ hist[g].pf = 1
        /\ pf.doc = g

====
